---- MODULE Spec2Model ----
(***************************************************************************)
(* A model of nesrs, a NES emulator written in Rust.                       *)
(*                                                                         *)
(*   BusSpec : the system bus of hw/bus.rs (RAM mirror, PPU register       *)
(*             window, PRG-ROM window, tick, NMI poll).                    *)
(*   Spec    : the 6502 interpreter of hw/cpu.rs with its opcode table of  *)
(*             hw/cpu/opcodes.rs.                                          *)
(*                                                                         *)
(* Bytes and addresses are integers kept to their width: u8 values are in  *)
(* 0..255 and u16 values in 0..65535.  Arrays are kept sparse: a cell that *)
(* is absent from the domain of the function holds 0.                      *)
(***************************************************************************)
EXTENDS Integers, Sequences, FiniteSets, TLC

VARIABLES
    \* ---- hw/bus.rs: struct Bus
    cpu_vram,          \* [u8; 2048], sparse
    cartridge,         \* Option<Cartridge>
    ppu,               \* PPU
    cycles,            \* usize
    bus_mode,          \* "ok", or the panic that ended the process
    \* ---- observation of the bus (history of the last operation)
    bus_last,          \* the last bus operation and what it returned
    bus_pre,           \* the bus state that operation started from
    ppu_advanced,      \* PPU cycles handed to PPU::tick since Bus::new
    bus_ops,           \* number of bus operations performed
    bus_hist,          \* the operation before the last, and the counts of the
                       \* current frame: [prev, frames, callbacks, delivered,
                       \* ctrl_rewritten, joy]
    \* ---- hw/cpu.rs: struct CPU
    register_a,
    register_x,
    register_y,
    status,
    stack_pointer,
    program_counter,
    memory,            \* [u8; 0xFFFF], sparse
    cpu_mode,          \* "idle", "loaded", "reset", "assigned", "running",
                       \* "returned", or the panic that ended the process
    \* ---- observation of the CPU
    cpu_prev,          \* the CPU state before the last operation, and the operation
    shadow,            \* the pushes not yet pulled: <<[kind, sp, val, byte, fresh, ok]>>
    pulled,            \* the shadow entry the last pull consumed
    cpu_pokes,         \* direct memory writes done before the run
    \* ---- rendering/renderer.rs: the call render(&ppu, &mut frame)
    render,            \* [stage, k, frame, bg_done, order]: where the call
                       \* stands, the Frame it draws into, and what it drew
    \* ---- hw/cpu/tracer.rs
    traced,            \* the line trace(&cpu) printed last, and the CPU it
                       \* was handed
    \* ---- api/ipc.rs: struct EmulatorServer, its three shared files and
    \* the client process on the other side of them
    ipc                \* [command_mmap, state_mmap, frame_mmap, emulator,
                       \* server, client, taken, handled, answer, seen]

bus_vars == <<cpu_vram, cartridge, ppu, cycles, bus_mode, bus_last, bus_pre,
              ppu_advanced, bus_ops, bus_hist>>

cpu_vars == <<register_a, register_x, register_y, status, stack_pointer,
              program_counter, memory, cpu_mode, cpu_prev, shadow, pulled,
              cpu_pokes>>

vars == <<bus_vars, cpu_vars, render, traced, ipc>>

(***************************************************************************)
(* Machine arithmetic                                                      *)
(***************************************************************************)

RECURSIVE BitAnd(_, _)
BitAnd(a, b) ==
    IF a = 0 \/ b = 0 THEN 0
    ELSE ((a % 2) * (b % 2)) + 2 * BitAnd(a \div 2, b \div 2)

RECURSIVE BitOr(_, _)
BitOr(a, b) ==
    IF a = 0 THEN b
    ELSE IF b = 0 THEN a
    ELSE (IF (a % 2) + (b % 2) > 0 THEN 1 ELSE 0) + 2 * BitOr(a \div 2, b \div 2)

RECURSIVE BitXor(_, _)
BitXor(a, b) ==
    IF a = 0 THEN b
    ELSE IF b = 0 THEN a
    ELSE ((a + b) % 2) + 2 * BitXor(a \div 2, b \div 2)

\* u8::wrapping_add / wrapping_sub
WrapAdd8(a, b) == (a + b) % 256

WrapSub8(a, b) == (a - b + 256) % 256

\* u16::wrapping_add
WrapAdd16(a, b) == (a + b) % 65536

\* a sparse array: absent cells hold 0
EmptyMem == [x \in {} |-> 0]

Get(f, i) == IF i \in DOMAIN f THEN f[i] ELSE 0

Put(f, i, v) ==
    IF v = 0
    THEN [x \in (DOMAIN f) \ {i} |-> f[x]]
    ELSE [x \in (DOMAIN f) \cup {i} |-> IF x = i THEN v ELSE f[x]]

(***************************************************************************)
(* Cartridge (hw/cartridge.rs is not part of the sources; its data model   *)
(* is the one of the specification: PRG-ROM of 16 KiB or 32 KiB, CHR-ROM   *)
(* of 8 KiB, a mirroring mode).  A ROM image is named by a seed; its bytes *)
(* are a fixed function of the seed and the index.                         *)
(***************************************************************************)

NoCartridge == [present |-> FALSE]

Cartridges ==
    { [present |-> TRUE, prg_len |-> 16384, seed |-> 3,
       screen_mirroring |-> "Horizontal"],
      [present |-> TRUE, prg_len |-> 32768, seed |-> 5,
       screen_mirroring |-> "Vertical"] }

\* c.prg_rom[i]
PrgByte(c, i) == (i * 7 + (i \div 256) + c.seed) % 256

\* ppu.chr_rom[i]
ChrByte(seed, i) == IF seed < 0 THEN 0 ELSE (i * 5 + (i \div 256) + seed) % 256

(***************************************************************************)
(* PPU.  hw/ppu.rs holds the struct, PPU::new and write_to_ppu_addr_reg;   *)
(* the register entry points the bus calls (read_status, read_oam_data,    *)
(* read_data, write_to_*, tick, nmi_interrupt) and AddressRegister are not *)
(* in the sources and follow section 4.4 of the specification.             *)
(***************************************************************************)

NoNmi == [some |-> FALSE]

SomeNmi == [some |-> TRUE, val |-> 1]

\* AddressRegister::new
address_register_new == [hi |-> 0, lo |-> 0, hi_ptr |-> TRUE]

\* PPU::new(chr_rom, mirroring)
ppu_new(chr, mirroring) ==
    [ chr_rom          |-> chr,
      mirroring        |-> mirroring,
      palette_table    |-> EmptyMem,
      vram             |-> EmptyMem,
      oam_data         |-> EmptyMem,
      address_register |-> address_register_new,
      ctrl             |-> 0,
      mask             |-> 0,
      status           |-> 0,
      oam_addr         |-> 0,
      scroll_x         |-> 0,
      scroll_y         |-> 0,
      internal_data_buf |-> 0,
      scanline         |-> 0,
      cycles           |-> 0,
      nmi_interrupt    |-> NoNmi ]

\* PPU::new_empty_rom
ppu_new_empty_rom == ppu_new(-1, "Horizontal")

\* AddressRegister::update: first write the high 6 bits, second the low 8 bits
address_register_update(r, value) ==
    IF r.hi_ptr
    THEN [r EXCEPT !.hi = BitAnd(value, 63), !.hi_ptr = FALSE]
    ELSE [r EXCEPT !.lo = value, !.hi_ptr = TRUE]

\* the 14-bit VRAM address held by the address register
address_register_get(r) == r.hi * 256 + r.lo

\* AddressRegister::increment, wrapping inside the 14-bit space
address_register_increment(r, inc) ==
    LET v == (address_register_get(r) + inc) % 16384
    IN  [r EXCEPT !.hi = v \div 256, !.lo = v % 256]

\* Control bit 2: VRAM address step
vram_addr_increment(p) == IF BitAnd(p.ctrl, 4) # 0 THEN 32 ELSE 1

\* name-table mirroring of section 4.4: PPU address -> index into the 2 KiB VRAM
mirror_vram_addr(p, addr) ==
    LET index      == BitAnd(addr - 8192, 4095)
        name_table == index \div 1024
        offset     == BitAnd(index, 1023)
        bank == IF p.mirroring = "Horizontal"
                THEN (IF name_table \in {0, 1} THEN 0 ELSE 1)
                ELSE (IF name_table \in {0, 2} THEN 0 ELSE 1)
    IN  bank * 1024 + offset

\* palette index with 0x10/0x14/0x18/0x1C aliasing 0x00/0x04/0x08/0x0C
palette_index(addr) ==
    LET i == (addr - 16128) % 32
    IN  IF i \in {16, 20, 24, 28} THEN i - 16 ELSE i

\* PPU::read_status: returns Status, clears VBlank, resets the write latch
ppu_read_status(p) ==
    [ value |-> p.status,
      ppu   |-> [p EXCEPT !.status = BitAnd(p.status, 127),
                          !.address_register.hi_ptr = TRUE] ]

\* PPU::read_oam_data
ppu_read_oam_data(p) == [value |-> Get(p.oam_data, p.oam_addr), ppu |-> p]

\* PPU::read_data: buffered below the palette, immediate in the palette
ppu_read_data(p) ==
    LET addr == address_register_get(p.address_register)
        q    == [p EXCEPT !.address_register =
                     address_register_increment(@, vram_addr_increment(p))]
    IN  IF addr < 8192
        THEN [value |-> p.internal_data_buf,
              ppu   |-> [q EXCEPT !.internal_data_buf = ChrByte(p.chr_rom, addr)]]
        ELSE IF addr < 12288
        THEN [value |-> p.internal_data_buf,
              ppu   |-> [q EXCEPT !.internal_data_buf =
                                      Get(p.vram, mirror_vram_addr(p, addr))]]
        ELSE IF addr < 16128
        THEN [value |-> p.internal_data_buf,
              ppu   |-> [q EXCEPT !.internal_data_buf =
                                      Get(p.vram, mirror_vram_addr(p, addr - 4096))]]
        ELSE [value |-> Get(p.palette_table, palette_index(addr)),
              ppu   |-> [q EXCEPT !.internal_data_buf =
                                      Get(p.vram, mirror_vram_addr(p, addr - 4096))]]

\* PPU::write_to_ctrl: NMI enable newly set while in VBlank raises an NMI
ppu_write_to_ctrl(p, value) ==
    LET before == BitAnd(p.ctrl, 128) # 0
        after  == BitAnd(value, 128) # 0
        vblank == BitAnd(p.status, 128) # 0
    IN  [p EXCEPT !.ctrl = value,
                  !.nmi_interrupt = IF ~before /\ after /\ vblank
                                    THEN SomeNmi ELSE @]

\* PPU::write_to_mask
ppu_write_to_mask(p, value) == [p EXCEPT !.mask = value]

\* PPU::write_to_oam_addr
ppu_write_to_oam_addr(p, value) == [p EXCEPT !.oam_addr = value]

\* PPU::write_to_oam_data: store, then post-increment the OAM address
ppu_write_to_oam_data(p, value) ==
    [p EXCEPT !.oam_data = Put(@, p.oam_addr, value),
              !.oam_addr = WrapAdd8(p.oam_addr, 1)]

\* PPU::write_to_scroll: X then Y, on the latch shared with the address register
ppu_write_to_scroll(p, value) ==
    IF p.address_register.hi_ptr
    THEN [p EXCEPT !.scroll_x = value, !.address_register.hi_ptr = FALSE]
    ELSE [p EXCEPT !.scroll_y = value, !.address_register.hi_ptr = TRUE]

\* an Address write that takes the byte as the low byte when the latch is
\* on the first write
ppu_write_to_ppu_addr_reg_swapped(p, value) ==
    [p EXCEPT !.address_register =
        IF @.hi_ptr THEN [@ EXCEPT !.lo = value, !.hi_ptr = FALSE]
        ELSE [@ EXCEPT !.hi = BitAnd(value, 63), !.hi_ptr = TRUE]]

\* PPU::write_to_ppu_addr_reg
ppu_write_to_ppu_addr_reg(p, value) ==
    [p EXCEPT !.address_register = address_register_update(@, value)]

\* PPU::write_to_data
ppu_write_to_data(p, value) ==
    LET addr == address_register_get(p.address_register)
        q    == [p EXCEPT !.address_register =
                     address_register_increment(@, vram_addr_increment(p))]
    IN  IF addr < 8192
        THEN q
        ELSE IF addr < 12288
        THEN [q EXCEPT !.vram = Put(@, mirror_vram_addr(p, addr), value)]
        ELSE IF addr < 16128
        THEN [q EXCEPT !.vram = Put(@, mirror_vram_addr(p, addr - 4096), value)]
        ELSE [q EXCEPT !.palette_table = Put(@, palette_index(addr), value)]

\* PPU::tick(n): 341 cycles a scanline, 262 scanlines a frame
ppu_tick(p, n) ==
    LET c == p.cycles + n
    IN  IF c < 341
        THEN [p EXCEPT !.cycles = c]
        ELSE LET sl == p.scanline + 1
                 q  == [p EXCEPT !.cycles = c - 341, !.scanline = sl]
             IN  IF sl = 241
                 THEN [q EXCEPT !.status = BitOr(BitAnd(@, 191), 128),
                                !.nmi_interrupt =
                                    IF BitAnd(p.ctrl, 128) # 0 THEN SomeNmi ELSE @]
                 ELSE IF sl = 261
                 THEN [q EXCEPT !.status = BitAnd(@, 31)]
                 ELSE IF sl >= 262
                 THEN [q EXCEPT !.scanline = 0,
                                !.nmi_interrupt = NoNmi,
                                !.status = BitAnd(@, 127)]
                 ELSE q

\* the value PPU::tick(n) returns: TRUE when scanline 261 wraps to scanline 0
ppu_tick_frame_complete(p, n) == p.cycles + n >= 341 /\ p.scanline + 1 >= 262

(***************************************************************************)
(* Bus (hw/bus.rs)                                                         *)
(***************************************************************************)

RAM_START == 0

RAM_END == 8191

PPU_REG_START == 8192

PPU_REG_END == 16383

PRG_START == 32768

PRG_END == 65535

\* the length of cpu_vram: [u8; 2048]
CPU_VRAM_LEN == 2048

\* a bus that builds its PPU with horizontal mirroring whatever the cartridge
bus_new_ppu_horizontal(c) ==
    IF c.present THEN ppu_new(c.seed, "Horizontal") ELSE ppu_new_empty_rom

\* Bus::new(cartridge)
bus_new_ppu(c) ==
    IF c.present THEN ppu_new(c.seed, c.screen_mirroring) ELSE ppu_new_empty_rom

\* read_prg_rom without the 16 KiB mirror
read_prg_rom_unmirrored(c, addr) ==
    LET a0 == addr - 32768
    IN  IF c.present
        THEN IF a0 < c.prg_len
             THEN [value |-> PrgByte(c, a0), fault |-> "none", index |-> a0]
             ELSE [value |-> 0, fault |-> "index_out_of_bounds", index |-> a0]
        ELSE [value |-> 0, fault |-> "none", index |-> -1]

\* Bus::read_prg_rom(addr): the byte, or the panic of an index outside prg_rom
read_prg_rom(c, addr) ==
    LET a0 == addr - 32768
    IN  IF c.present
        THEN LET a1 == IF c.prg_len = 16384 /\ a0 >= 16384 THEN a0 % 16384 ELSE a0
             IN  IF a1 < c.prg_len
                 THEN [value |-> PrgByte(c, a1), fault |-> "none", index |-> a1]
                 ELSE [value |-> 0, fault |-> "index_out_of_bounds", index |-> a1]
        ELSE [value |-> 0, fault |-> "none", index |-> -1]

\* the mask of the RAM arm of mem_read: addr & 0b00000111_11111111
ram_mirror_down_read(addr) == BitAnd(addr, 2047)

\* a write arm that masks with 10 bits instead of 11
ram_mirror_down_write_10bit(addr) == BitAnd(addr, 1023)

\* the mask of the RAM arm of mem_write: addr & 0b11111111111
ram_mirror_down_write(addr) == BitAnd(addr, 2047)

\* a read arm that keeps two register bits instead of three
ppu_mirror_down_read_2bit(addr) == BitAnd(addr, 8195)

\* the mask of the PPU mirror arm of mem_read: addr & 0b00100000_00000111
ppu_mirror_down_read(addr) == BitAnd(addr, 8199)

\* the mask of the PPU mirror arm of mem_write: addr & 0b00100000_00000111
ppu_mirror_down_write(addr) == BitAnd(addr, 8199)

\* a write-only arm that answers 0 (open bus) instead of panicking
read_write_only_open_bus(p, addr) ==
    [value |-> 0, ppu |-> p, fault |-> "none", port |-> "write_only"]

\* the arm of mem_read for 0x2000, 0x2001, 0x2003, 0x2005, 0x2006, 0x4014:
\* panic!("Attempt to read from write-only PPU address")
read_write_only(p, addr) ==
    [value |-> 0, ppu |-> p, fault |-> "read_write_only", port |-> "write_only"]

\* <Bus as Memory>::mem_read(addr): the value, the PPU after the read, the panic
\* if any, and the arm of the match that served the read
RECURSIVE bus_mem_read(_, _, _, _)
bus_mem_read(vram, c, p, addr) ==
    IF addr >= RAM_START /\ addr <= RAM_END
    THEN LET i == ram_mirror_down_read(addr)
         IN  IF i < CPU_VRAM_LEN
             THEN [value |-> Get(vram, i), ppu |-> p, fault |-> "none", port |-> "ram"]
             ELSE [value |-> 0, ppu |-> p, fault |-> "index_out_of_bounds",
                   port |-> "ram"]
    ELSE IF addr \in {8192, 8193, 8195, 8197, 8198, 16404}
    THEN read_write_only(p, addr)
    ELSE IF addr = 8194
    THEN LET r == ppu_read_status(p)
         IN  [value |-> r.value, ppu |-> r.ppu, fault |-> "none",
              port |-> "read_status"]
    ELSE IF addr = 8196
    THEN LET r == ppu_read_oam_data(p)
         IN  [value |-> r.value, ppu |-> r.ppu, fault |-> "none",
              port |-> "read_oam_data"]
    ELSE IF addr = 8199
    THEN LET r == ppu_read_data(p)
         IN  [value |-> r.value, ppu |-> r.ppu, fault |-> "none",
              port |-> "read_data"]
    ELSE IF addr >= 8200 /\ addr <= PPU_REG_END
    THEN bus_mem_read(vram, c, p, ppu_mirror_down_read(addr))
    ELSE IF addr >= PRG_START /\ addr <= PRG_END
    THEN LET r == read_prg_rom(c, addr)
         IN  [value |-> r.value, ppu |-> p, fault |-> r.fault, port |-> "prg_rom"]
    ELSE [value |-> 0, ppu |-> p, fault |-> "none", port |-> "ignored"]

\* a ROM arm that lets the write fall through to the RAM behind the mirror mask
write_prg_rom_into_ram(vram, p, addr, data) ==
    [cpu_vram |-> Put(vram, ram_mirror_down_write(addr), data), ppu |-> p,
     fault |-> "none", port |-> "prg_rom"]

\* the arm of mem_write for 0x8000..=0xFFFF:
\* panic!("Attempt to write to Cartridge ROM space")
write_prg_rom(vram, p, addr, data) ==
    [cpu_vram |-> vram, ppu |-> p, fault |-> "write_rom", port |-> "prg_rom"]

\* <Bus as Memory>::mem_write(addr, data)
RECURSIVE bus_mem_write(_, _, _, _)
bus_mem_write(vram, p, addr, data) ==
    IF addr >= RAM_START /\ addr <= RAM_END
    THEN LET i == ram_mirror_down_write(addr)
         IN  IF i < CPU_VRAM_LEN
             THEN [cpu_vram |-> Put(vram, i, data), ppu |-> p, fault |-> "none",
                   port |-> "ram"]
             ELSE [cpu_vram |-> vram, ppu |-> p, fault |-> "index_out_of_bounds",
                   port |-> "ram"]
    ELSE IF addr = 8192
    THEN [cpu_vram |-> vram, ppu |-> ppu_write_to_ctrl(p, data), fault |-> "none",
          port |-> "write_to_ctrl"]
    ELSE IF addr = 8193
    THEN [cpu_vram |-> vram, ppu |-> ppu_write_to_mask(p, data), fault |-> "none",
          port |-> "write_to_mask"]
    ELSE IF addr = 8194
    THEN [cpu_vram |-> vram, ppu |-> p, fault |-> "write_status",
          port |-> "status"]
    ELSE IF addr = 8195
    THEN [cpu_vram |-> vram, ppu |-> ppu_write_to_oam_addr(p, data),
          fault |-> "none", port |-> "write_to_oam_addr"]
    ELSE IF addr = 8196
    THEN [cpu_vram |-> vram, ppu |-> ppu_write_to_oam_data(p, data),
          fault |-> "none", port |-> "write_to_oam_data"]
    ELSE IF addr = 8197
    THEN [cpu_vram |-> vram, ppu |-> ppu_write_to_scroll(p, data), fault |-> "none",
          port |-> "write_to_scroll"]
    ELSE IF addr = 8198
    THEN [cpu_vram |-> vram, ppu |-> ppu_write_to_ppu_addr_reg(p, data),
          fault |-> "none", port |-> "write_to_ppu_addr_reg"]
    ELSE IF addr = 8199
    THEN [cpu_vram |-> vram, ppu |-> ppu_write_to_data(p, data), fault |-> "none",
          port |-> "write_to_data"]
    ELSE IF addr >= 8200 /\ addr <= PPU_REG_END
    THEN bus_mem_write(vram, p, ppu_mirror_down_write(addr), data)
    ELSE IF addr >= 32768 /\ addr <= 65535
    THEN write_prg_rom(vram, p, addr, data)
    ELSE [cpu_vram |-> vram, ppu |-> p, fault |-> "none", port |-> "ignored"]

\* a poll that looks at the pending NMI and leaves it pending
poll_nmi_status_peek(p) == [value |-> p.nmi_interrupt, ppu |-> p]

\* a poll that reports an NMI whether or not one is pending
poll_nmi_status_some(p) ==
    [value |-> SomeNmi, ppu |-> [p EXCEPT !.nmi_interrupt = NoNmi]]

\* Bus::poll_nmi_status(): self.ppu.nmi_interrupt.take()
poll_nmi_status(p) ==
    [value |-> p.nmi_interrupt, ppu |-> [p EXCEPT !.nmi_interrupt = NoNmi]]

\* the PPU cycles Bus::tick asks of the PPU for `n` CPU cycles: `cycles * 3`
tick_ppu_cycles(n) == n * 3

\* `cycles * 3` is a u8 product.  Past 255 the build decides: a panic with
\* overflow checks (debug), the product modulo 256 without them (release).
tick_outcomes(n) ==
    LET m == tick_ppu_cycles(n)
    IN  IF m <= 255
        THEN {[fault |-> "none", ppu_cycles |-> m]}
        ELSE {[fault |-> "mul_overflow", ppu_cycles |-> 0],
              [fault |-> "none", ppu_cycles |-> m % 256]}

(***************************************************************************)
(* Renderer (rendering/renderer.rs).  rendering/frame.rs, rendering/       *)
(* palette.rs and the Control register of the PPU are not in the sources   *)
(* and follow sections 3 and 4.5 of the specification.  The Frame is       *)
(* observed through its top-left FrameSide x FrameSide pixels; a pixel     *)
(* holds the number of the SYSTEM_PALLETE entry whose colour set_pixel was *)
(* handed, -1 for a pixel never set.                                       *)
(***************************************************************************)

FrameSide == 16

\* the observed pixels, by y * 256 + x
FramePixels == {y * 256 + x : x \in 0..(FrameSide - 1), y \in 0..(FrameSide - 1)}

\* Frame::new
frame_new == [idx \in FramePixels |-> -1]

\* Frame::set_pixel(x, y, rgb), for each call in `calls`, a set of
\* [x, y, rgb] that names no pixel twice
set_pixel(f, calls) ==
    [idx \in DOMAIN f |->
        IF \E c \in calls : c.x < 256 /\ c.y < 240 /\ c.y * 256 + c.x = idx
        THEN (CHOOSE c \in calls : c.y * 256 + c.x = idx).rgb
        ELSE f[idx]]

\* ppu.controller_register.bknd_pattern_addr(): Control bit 4
bknd_pattern_addr(p) == IF BitAnd(p.ctrl, 16) # 0 THEN 4096 ELSE 0

\* ppu.controller_register.sprt_pattern_addr(): Control bit 3
sprt_pattern_addr(p) == IF BitAnd(p.ctrl, 8) # 0 THEN 4096 ELSE 0

\* `(1 & lower) << 1 | (1 & upper)` of the tile at chr_rom[base..=base + 15]
\* when the inner loop, which runs x from 7 down to 0 and shifts both planes
\* right once a turn, stands at x in row y
tile_value(p, base, x, y) ==
    LET upper == ChrByte(p.chr_rom, base + y)
        lower == ChrByte(p.chr_rom, base + y + 8)
        shift == 2 ^ (7 - x)
    IN  ((lower \div shift) % 2) * 2 + ((upper \div shift) % 2)

\* bg_pallette(ppu, tile_column, tile_row)
bg_pallette(p, tile_column, tile_row) ==
    LET attr_table_idx == (tile_row \div 4) * 8 + (tile_column \div 4)
        attr_byte  == Get(p.vram, 960 + attr_table_idx)
        quadrant   == <<(tile_column % 4) \div 2, (tile_row % 4) \div 2>>
        pallet_idx == IF quadrant = <<0, 0>> THEN attr_byte % 4
                      ELSE IF quadrant = <<1, 0>> THEN (attr_byte \div 4) % 4
                      ELSE IF quadrant = <<0, 1>> THEN (attr_byte \div 16) % 4
                      ELSE (attr_byte \div 64) % 4
        pallete_start == 1 + pallet_idx * 4
    IN  <<Get(p.palette_table, 0), Get(p.palette_table, pallete_start),
          Get(p.palette_table, pallete_start + 1),
          Get(p.palette_table, pallete_start + 2)>>

\* the colour render_bg sets at pixel (px, py): name table 0, tile
\* i = tile_row * 32 + tile_column
bg_pixel(p, px, py) ==
    LET tile_column == px \div 8
        tile_row    == py \div 8
        tile  == Get(p.vram, tile_row * 32 + tile_column)
        value == tile_value(p, bknd_pattern_addr(p) + tile * 16, px % 8, py % 8)
    IN  IF value = 0 THEN Get(p.palette_table, 0)
        ELSE bg_pallette(p, tile_column, tile_row)[value + 1]

\* render_bg(ppu, frame): every pixel of the 960 tiles is set once
render_bg(p, f) == [idx \in DOMAIN f |-> bg_pixel(p, idx % 256, idx \div 256)]

\* sprite_palette(ppu, pallete_idx)
sprite_palette(p, pallete_idx) ==
    LET start == 17 + pallete_idx * 4
    IN  <<0, Get(p.palette_table, start), Get(p.palette_table, start + 1),
          Get(p.palette_table, start + 2)>>

\* the body of the two inner loops of render_sprites for the sprite at
\* oam_data[i..i + 3], at row y and column x: the colour index and the
\* set_pixel call it makes when the index is not 0
render_sprite_pixel(p, i, x, y) ==
    LET tile_idx == Get(p.oam_data, i + 1)
        tile_x   == Get(p.oam_data, i + 3)
        tile_y   == Get(p.oam_data, i)
        attr     == Get(p.oam_data, i + 2)
        flip_vertical   == (attr \div 128) % 2 = 1
        flip_horizontal == (attr \div 64) % 2 = 1
        palette  == sprite_palette(p, attr % 4)
        value    == tile_value(p, sprt_pattern_addr(p) + tile_idx * 16, x, y)
    IN  [value |-> value,
         x     |-> IF flip_horizontal THEN tile_x + 7 - x ELSE tile_x + x,
         y     |-> IF flip_vertical THEN tile_y + 7 - y ELSE tile_y + y,
         rgb   |-> palette[value + 1]]

\* `for y in 0..=7 { for x in (0..=7).rev() { ... } }`: the set_pixel calls of
\* one sprite; the turns with colour index 0 `continue` without a call
render_sprite_pixels(p, i) ==
    {c \in {render_sprite_pixel(p, i, x, y) : x \in 0..7, y \in 0..7} :
        c.value # 0}

\* an iteration that takes the OAM entries from the first to the last
sprite_order_ascending == [k \in 1..64 |-> 4 * (k - 1)]

\* `(0..ppu.oam_data.len()).step_by(4).rev()`: 252, 248, ..., 0
sprite_order == [k \in 1..64 |-> 256 - 4 * k]

\* the largest x and the largest y among the set_pixel calls `calls`, and
\* `far` where that is larger
farthest(far, calls) ==
    LET xs == {c.x : c \in calls} \cup {far.x}
        ys == {c.y : c \in calls} \cup {far.y}
    IN  [x |-> CHOOSE m \in xs : \A n \in xs : n <= m,
         y |-> CHOOSE m \in ys : \A n \in ys : n <= m]

\* the coordinates render_bg passes to set_pixel: tile_column * 8 + x and
\* tile_row * 8 + y for i in 0..0x03c0
render_bg_calls ==
    {[x |-> (i % 32) * 8 + x, y |-> (i \div 32) * 8 + y] :
        i \in 0..959, x \in 0..7, y \in 0..7}

\* no render call under way; `far` holds the largest x and y passed to
\* set_pixel since render was called
RenderIdle == [stage |-> "idle", k |-> 0, frame |-> << >>, bg_done |-> FALSE,
               order |-> << >>, far |-> [x |-> 0, y |-> 0]]

\* no line printed
NoTrace == [printed |-> FALSE]

\* EmulatorServer::new(): no emulator, the three files zero-filled (the
\* frame file is named by the number of the frame it holds, 0 for the blank
\* one), the server about to call read_command, the client about to write
\* its first command.  `taken` is what read_command returned last, `answer`
\* what the handlers wrote last into the state and frame files, `seen` what
\* the client found in the files when it last read the signal byte as 0.
IpcIdle ==
    [command_mmap |-> [command |-> 0, payload_len |-> 0, payload |-> << >>,
                       signal |-> 0],
     state_mmap |-> <<0, 0, 0>>,
     frame_mmap |-> 0,
     emulator |-> FALSE,
     server |-> [pc |-> "read_command", command |-> "Noop", payload |-> << >>,
                 logged |-> 0],
     client |-> [pc |-> "idle", issued |-> 0],
     taken |-> [n |-> 0, command |-> 0, payload |-> << >>, signal |-> 0,
                emulator |-> FALSE],
     handled |-> 0,
     answer |-> [n |-> 0, state |-> <<0, 0, 0>>, frame |-> 0],
     seen |-> [n |-> 0, command |-> 0, payload |-> << >>,
               state |-> <<0, 0, 0>>, frame |-> 0]]

\* what the player and the program have done to the controller port 0x4016
\* (16406): the buttons
\* held (bit 0 = A ... bit 7 = Right), bit 0 of the last byte written to
\* 0x4016, and the number of reads of 0x4016 since that bit went from 1 to 0
\* (-1 before the first such strobe)
JoypadIdle == [buttons |-> 0, strobe |-> 0, index |-> -1]

JoypadWritten(j, addr, data) ==
    IF addr # 16406 THEN j
    ELSE IF data % 2 = 1 THEN [j EXCEPT !.strobe = 1, !.index = -1]
    ELSE IF j.strobe = 1 THEN [j EXCEPT !.strobe = 0, !.index = 0]
    ELSE j

JoypadWasRead(j, addr) ==
    IF addr = 16406 /\ j.index >= 0
    THEN [j EXCEPT !.index = @ + 1] ELSE j

\* ---- bounds and inputs of BusSpec

MaxBusOps == 3

BusReadAddrs ==
    { 2049,                             \* RAM, through a mirror
      8194, 8199,                       \* 0x2002, 0x2007
      16378, 10940, 16383,              \* 0x3FFA, 0x2ABC, 0x3FFF: mirrors of
                                        \* 0x2002, 0x2004, 0x2007
      8192, 8200,                       \* 0x2000 and its mirror 0x2008
      8193, 8195, 8197, 8198, 16404,    \* 0x2001, 0x2003, 0x2005, 0x2006, 0x4014
      16377, 16379, 16381, 16382,       \* 0x3FF9, 0x3FFB, 0x3FFD, 0x3FFE: mirrors
                                        \* of 0x2001, 0x2003, 0x2005, 0x2006
      16406,                            \* 0x4016
      32768, 49152, 65535 }             \* PRG-ROM

BusWrites ==
    { <<0, 85>>, <<2049, 170>>, <<8191, 128>>, <<4096, 0>>,    \* RAM
      <<8195, 0>>, <<8198, 63>>,                   \* 0x2003, 0x2006
      <<8200, 132>>,                               \* 0x2008 -> Control
      <<16377, 30>>,                               \* 0x3FF9 -> Mask
      <<16378, 1>>,                                \* 0x3FFA -> Status
      <<16379, 1>>,                                \* 0x3FFB -> OAM address
      <<16380, 119>>,                              \* 0x3FFC -> OAM data
      <<16381, 8>>,                                \* 0x3FFD -> Scroll
      <<16382, 0>>, <<16382, 33>>,                 \* 0x3FFE -> Address
      <<10943, 66>>,                               \* 0x2ABF -> Data
      <<16404, 2>>, <<32768, 1>>,                  \* 0x4014, PRG-ROM
      <<49152, 7>>, <<65535, 255>> }               \* 0xC000, 0xFFFF

TickCounts == {1, 85, 86}

BusSpecInit ==
    /\ cartridge \in {NoCartridge} \cup Cartridges
    /\ cpu_vram = EmptyMem
    /\ ppu = bus_new_ppu(cartridge)
    /\ cycles = 0
    /\ bus_mode = "ok"
    /\ bus_last = [kind |-> "new", addr |-> 0, data |-> 0, value |-> 0,
                   port |-> "none", fault |-> "none"]
    /\ bus_pre = [cpu_vram |-> EmptyMem, ppu |-> ppu, cycles |-> 0,
                  cartridge |-> cartridge]
    /\ ppu_advanced = 0
    /\ bus_ops = 0
    /\ bus_hist = [prev |-> bus_last, frames |-> 0, callbacks |-> 0,
                   delivered |-> 0, ctrl_rewritten |-> FALSE, joy |-> JoypadIdle]
    \* the CPU of hw/cpu.rs is not attached to this bus: it stays as CPU::new() left it
    /\ register_a = 0
    /\ register_x = 0
    /\ register_y = 0
    /\ status = 0
    /\ stack_pointer = 0
    /\ program_counter = 0
    /\ memory = EmptyMem
    /\ cpu_mode = "idle"
    /\ cpu_prev = [op |-> "new", opcode |-> 0, instruction |-> "none",
                    mode |-> "none", bytes |-> 0, operand |-> 0,
                    before |-> [a |-> 0, x |-> 0, y |-> 0, p |-> 0, sp |-> 0,
                                pc |-> 0, mem |-> EmptyMem, fault |-> "none"]]
    /\ shadow = << >>
    /\ pulled = [entry |-> [kind |-> "none", sp |-> 0, val |-> 0, byte |-> 0,
                            fresh |-> FALSE, ok |-> FALSE],
                 balanced |-> FALSE]
    /\ cpu_pokes = 0
    /\ render = RenderIdle
    /\ traced = NoTrace
    /\ ipc = IpcIdle

BusSnapshot ==
    [cpu_vram |-> cpu_vram, ppu |-> ppu, cycles |-> cycles, cartridge |-> cartridge]

\* the history after an operation that neither ticks, polls nor writes Control
BusHistNext == [bus_hist EXCEPT !.prev = bus_last]

\* bus.mem_read(addr), as it changes the bus
BusDoRead(addr) ==
    /\ bus_mode = "ok"
    /\ bus_ops < MaxBusOps
    /\ LET r == bus_mem_read(cpu_vram, cartridge, ppu, addr)
       IN  /\ ppu' = IF r.fault = "none" THEN r.ppu ELSE ppu
           /\ bus_mode' = IF r.fault = "none" THEN "ok" ELSE r.fault
           /\ bus_last' = [kind |-> "read", addr |-> addr, data |-> 0,
                           value |-> r.value, port |-> r.port, fault |-> r.fault]
    /\ bus_pre' = BusSnapshot
    /\ bus_ops' = bus_ops + 1
    /\ bus_hist' = [BusHistNext EXCEPT !.joy = JoypadWasRead(@, addr)]
    /\ UNCHANGED <<cpu_vram, cartridge, cycles, ppu_advanced>>

\* bus.mem_read(addr)
BusRead(addr) ==
    /\ BusDoRead(addr)
    /\ UNCHANGED <<cpu_vars, render, traced, ipc>>

\* bus.mem_write(addr, data)
BusWrite(addr, data) ==
    /\ bus_mode = "ok"
    /\ bus_ops < MaxBusOps
    /\ LET r == bus_mem_write(cpu_vram, ppu, addr, data)
       IN  /\ cpu_vram' = IF r.fault = "none" THEN r.cpu_vram ELSE cpu_vram
           /\ ppu' = IF r.fault = "none" THEN r.ppu ELSE ppu
           /\ bus_mode' = IF r.fault = "none" THEN "ok" ELSE r.fault
           /\ bus_last' = [kind |-> "write", addr |-> addr, data |-> data,
                           value |-> 0, port |-> r.port, fault |-> r.fault]
    /\ bus_pre' = BusSnapshot
    /\ bus_ops' = bus_ops + 1
    /\ bus_hist' = [BusHistNext EXCEPT
                        !.ctrl_rewritten = @ \/ bus_last'.port = "write_to_ctrl",
                        !.joy = JoypadWritten(@, addr, data)]
    /\ UNCHANGED <<cartridge, cycles, ppu_advanced, cpu_vars, render, traced, ipc>>

\* bus.tick(n), as it changes the bus: the cycle counter first, then the PPU
\* by `n * 3`
BusDoTick(n) ==
    /\ bus_mode = "ok"
    /\ bus_ops < MaxBusOps
    /\ cycles' = cycles + n
    /\ \E o \in tick_outcomes(n) :
          /\ ppu' = IF o.fault = "none" THEN ppu_tick(ppu, o.ppu_cycles) ELSE ppu
          /\ ppu_advanced' = ppu_advanced + o.ppu_cycles
          /\ bus_mode' = IF o.fault = "none" THEN "ok" ELSE o.fault
          /\ bus_last' = [kind |-> "tick", addr |-> 0, data |-> n,
                          value |-> o.ppu_cycles, port |-> "tick",
                          fault |-> o.fault]
          \* the value of self.ppu.tick(..) is dropped: no callback is invoked
          /\ bus_hist' =
                IF o.fault = "none" /\ ppu_tick_frame_complete(ppu, o.ppu_cycles)
                THEN [BusHistNext EXCEPT !.frames = @ + 1, !.delivered = 0]
                ELSE BusHistNext
    /\ bus_pre' = BusSnapshot
    /\ bus_ops' = bus_ops + 1
    /\ UNCHANGED <<cpu_vram, cartridge>>

\* bus.tick(n)
BusTick(n) ==
    /\ BusDoTick(n)
    /\ UNCHANGED <<cpu_vars, render, traced, ipc>>

\* bus.poll_nmi_status(): Option::take of the PPU's pending NMI
BusPollNmi ==
    /\ bus_mode = "ok"
    /\ bus_ops < MaxBusOps
    /\ ppu' = poll_nmi_status(ppu).ppu
    /\ bus_last' = [kind |-> "poll", addr |-> 0, data |-> 0,
                    value |-> IF poll_nmi_status(ppu).value.some THEN 1 ELSE 0,
                    port |-> IF poll_nmi_status(ppu).value.some THEN "some"
                             ELSE "none",
                    fault |-> "none"]
    /\ bus_hist' = [BusHistNext EXCEPT !.delivered =
                        IF poll_nmi_status(ppu).value.some THEN @ + 1 ELSE @]
    /\ bus_pre' = BusSnapshot
    /\ bus_ops' = bus_ops + 1
    /\ UNCHANGED <<cpu_vram, cartridge, cycles, bus_mode, ppu_advanced, cpu_vars, render, traced, ipc>>

\* bus.insert_cartridge(c): a new cartridge and a new PPU
BusInsertCartridge(c) ==
    /\ bus_mode = "ok"
    /\ bus_ops < MaxBusOps
    /\ c # cartridge
    /\ cartridge' = c
    /\ ppu' = ppu_new(c.seed, c.screen_mirroring)
    /\ bus_last' = [kind |-> "insert", addr |-> 0, data |-> 0, value |-> 0,
                    port |-> "none", fault |-> "none"]
    /\ bus_hist' = [BusHistNext EXCEPT !.ctrl_rewritten = TRUE]
    /\ bus_pre' = BusSnapshot
    /\ bus_ops' = bus_ops + 1
    /\ UNCHANGED <<cpu_vram, cycles, bus_mode, ppu_advanced, cpu_vars, render, traced, ipc>>

BusNext ==
    \/ \E addr \in BusReadAddrs : BusRead(addr)
    \/ \E w \in BusWrites : BusWrite(w[1], w[2])
    \/ \E n \in TickCounts : BusTick(n)
    \/ BusPollNmi
    \/ \E c \in Cartridges : BusInsertCartridge(c)

(***************************************************************************)
(* CPU (hw/cpu.rs) and its opcode table (hw/cpu/opcodes.rs).  A CPU value  *)
(* is the record [a, x, y, p, sp, pc, mem, fault]; `fault` is "none" or    *)
(* the panic that stopped the instruction.                                 *)
(***************************************************************************)

CARRY == 1

ZERO == 2

INTERRUPT == 4

DECIMAL == 8

BREAK == 16

BIT5 == 32

OVERFLOW == 64

NEGATIVE == 128

STACK_PAGE == 256

STACK_START == 255

\* the length of CPU::memory: [u8; 0xFFFF]
MEMORY_LEN == 65535

\* OpCode::new(instruction, bytes, cycles, addressing_mode)
OpCode(instruction, bytes, op_cycles, addressing_mode) ==
    [instruction |-> instruction, bytes |-> bytes, cycles |-> op_cycles,
     addressing_mode |-> addressing_mode]

\* the OPCODES map
OPCODES ==
       105 :> OpCode("ADC", 2, 2, "Immediate")    \* 0x69
    @@ 101 :> OpCode("ADC", 2, 3, "ZeroPage")    \* 0x65
    @@ 117 :> OpCode("ADC", 2, 4, "ZeroPageX")    \* 0x75
    @@ 109 :> OpCode("ADC", 3, 4, "Absolute")    \* 0x6D
    @@ 125 :> OpCode("ADC", 3, 4, "AbsoluteX")    \* 0x7D
    @@ 121 :> OpCode("ADC", 3, 4, "AbsoluteY")    \* 0x79
    @@ 97 :> OpCode("ADC", 2, 6, "IndirectX")    \* 0x61
    @@ 113 :> OpCode("ADC", 2, 5, "IndirectY")    \* 0x71
    @@ 0 :> OpCode("BRK", 1, 7, "Implicit")    \* 0x00
    @@ 169 :> OpCode("LDA", 2, 2, "Immediate")    \* 0xA9
    @@ 165 :> OpCode("LDA", 2, 3, "ZeroPage")    \* 0xA5
    @@ 181 :> OpCode("LDA", 2, 4, "ZeroPageX")    \* 0xB5
    @@ 173 :> OpCode("LDA", 3, 4, "Absolute")    \* 0xAD
    @@ 189 :> OpCode("LDA", 3, 4, "AbsoluteX")    \* 0xBD
    @@ 185 :> OpCode("LDA", 3, 4, "AbsoluteY")    \* 0xB9
    @@ 161 :> OpCode("LDA", 2, 6, "IndirectX")    \* 0xA1
    @@ 177 :> OpCode("LDA", 2, 5, "IndirectY")    \* 0xB1
    @@ 162 :> OpCode("LDX", 2, 2, "Immediate")    \* 0xA2
    @@ 166 :> OpCode("LDX", 2, 3, "ZeroPage")    \* 0xA6
    @@ 182 :> OpCode("LDX", 2, 4, "ZeroPageY")    \* 0xB6
    @@ 174 :> OpCode("LDX", 3, 4, "Absolute")    \* 0xAE
    @@ 190 :> OpCode("LDX", 3, 4, "AbsoluteY")    \* 0xBE
    @@ 160 :> OpCode("LDY", 2, 2, "Immediate")    \* 0xA0
    @@ 164 :> OpCode("LDY", 2, 3, "ZeroPage")    \* 0xA4
    @@ 180 :> OpCode("LDY", 2, 4, "ZeroPageX")    \* 0xB4
    @@ 172 :> OpCode("LDY", 3, 4, "Absolute")    \* 0xAC
    @@ 188 :> OpCode("LDY", 3, 4, "AbsoluteX")    \* 0xBC
    @@ 133 :> OpCode("STA", 2, 3, "ZeroPage")    \* 0x85
    @@ 149 :> OpCode("STA", 2, 4, "ZeroPageX")    \* 0x95
    @@ 141 :> OpCode("STA", 3, 4, "Absolute")    \* 0x8D
    @@ 157 :> OpCode("STA", 3, 5, "AbsoluteX")    \* 0x9D
    @@ 153 :> OpCode("STA", 3, 5, "AbsoluteY")    \* 0x99
    @@ 129 :> OpCode("STA", 2, 6, "IndirectX")    \* 0x81
    @@ 145 :> OpCode("STA", 2, 6, "IndirectY")    \* 0x91
    @@ 134 :> OpCode("STX", 2, 3, "ZeroPage")    \* 0x86
    @@ 150 :> OpCode("STX", 2, 4, "ZeroPageY")    \* 0x96
    @@ 142 :> OpCode("STX", 3, 4, "Absolute")    \* 0x8E
    @@ 132 :> OpCode("STY", 2, 3, "ZeroPage")    \* 0x84
    @@ 148 :> OpCode("STY", 2, 4, "ZeroPageX")    \* 0x94
    @@ 140 :> OpCode("STY", 3, 4, "Absolute")    \* 0x8C
    @@ 170 :> OpCode("TAX", 1, 2, "Implicit")    \* 0xAA
    @@ 168 :> OpCode("TAY", 1, 2, "Implicit")    \* 0xA8
    @@ 186 :> OpCode("TSX", 1, 2, "Implicit")    \* 0xBA
    @@ 138 :> OpCode("TXA", 1, 2, "Implicit")    \* 0x8A
    @@ 154 :> OpCode("TXS", 1, 2, "Implicit")    \* 0x9A
    @@ 152 :> OpCode("TYA", 1, 2, "Implicit")    \* 0x98
    @@ 72 :> OpCode("PHA", 1, 3, "Implicit")    \* 0x48
    @@ 8 :> OpCode("PHP", 1, 3, "Implicit")    \* 0x08
    @@ 104 :> OpCode("PLA", 1, 4, "Implicit")    \* 0x68
    @@ 40 :> OpCode("PLP", 1, 4, "Implicit")    \* 0x28
    @@ 198 :> OpCode("DEC", 2, 5, "ZeroPage")    \* 0xC6
    @@ 214 :> OpCode("DEC", 2, 6, "ZeroPageX")    \* 0xD6
    @@ 206 :> OpCode("DEC", 3, 6, "Absolute")    \* 0xCE
    @@ 222 :> OpCode("DEC", 3, 7, "AbsoluteX")    \* 0xDE
    @@ 202 :> OpCode("DEX", 1, 2, "Implicit")    \* 0xCA
    @@ 136 :> OpCode("DEY", 1, 2, "Implicit")    \* 0x88
    @@ 230 :> OpCode("INC", 2, 5, "ZeroPage")    \* 0xE6
    @@ 246 :> OpCode("INC", 2, 6, "ZeroPageX")    \* 0xF6
    @@ 238 :> OpCode("INC", 3, 6, "Absolute")    \* 0xEE
    @@ 254 :> OpCode("INC", 3, 7, "AbsoluteX")    \* 0xFE
    @@ 232 :> OpCode("INX", 1, 2, "Implicit")    \* 0xE8
    @@ 200 :> OpCode("INY", 1, 2, "Implicit")    \* 0xC8
    @@ 41 :> OpCode("AND", 2, 2, "Immediate")    \* 0x29
    @@ 37 :> OpCode("AND", 2, 3, "ZeroPage")    \* 0x25
    @@ 53 :> OpCode("AND", 2, 4, "ZeroPageX")    \* 0x35
    @@ 45 :> OpCode("AND", 3, 4, "Absolute")    \* 0x2D
    @@ 61 :> OpCode("AND", 3, 4, "AbsoluteX")    \* 0x3D
    @@ 57 :> OpCode("AND", 3, 4, "AbsoluteY")    \* 0x39
    @@ 33 :> OpCode("AND", 2, 6, "IndirectX")    \* 0x21
    @@ 49 :> OpCode("AND", 2, 5, "IndirectY")    \* 0x31
    @@ 73 :> OpCode("EOR", 2, 2, "Immediate")    \* 0x49
    @@ 69 :> OpCode("EOR", 2, 3, "ZeroPage")    \* 0x45
    @@ 85 :> OpCode("EOR", 2, 4, "ZeroPageX")    \* 0x55
    @@ 77 :> OpCode("EOR", 3, 4, "Absolute")    \* 0x4D
    @@ 93 :> OpCode("EOR", 3, 4, "AbsoluteX")    \* 0x5D
    @@ 89 :> OpCode("EOR", 3, 4, "AbsoluteY")    \* 0x59
    @@ 65 :> OpCode("EOR", 2, 6, "IndirectX")    \* 0x41
    @@ 81 :> OpCode("EOR", 2, 5, "IndirectY")    \* 0x51
    @@ 9 :> OpCode("ORA", 2, 2, "Immediate")    \* 0x09
    @@ 5 :> OpCode("ORA", 2, 3, "ZeroPage")    \* 0x05
    @@ 21 :> OpCode("ORA", 2, 4, "ZeroPageX")    \* 0x15
    @@ 13 :> OpCode("ORA", 3, 4, "Absolute")    \* 0x0D
    @@ 29 :> OpCode("ORA", 3, 4, "AbsoluteX")    \* 0x1D
    @@ 25 :> OpCode("ORA", 3, 4, "AbsoluteY")    \* 0x19
    @@ 1 :> OpCode("ORA", 2, 6, "IndirectX")    \* 0x01
    @@ 17 :> OpCode("ORA", 2, 5, "IndirectY")    \* 0x11
    @@ 10 :> OpCode("ASLA", 1, 2, "Implicit")    \* 0x0A
    @@ 6 :> OpCode("ASL", 2, 5, "ZeroPage")    \* 0x06
    @@ 22 :> OpCode("ASL", 2, 6, "ZeroPageX")    \* 0x16
    @@ 14 :> OpCode("ASL", 3, 6, "Absolute")    \* 0x0E
    @@ 30 :> OpCode("ASL", 3, 7, "AbsoluteX")    \* 0x1E
    @@ 74 :> OpCode("LSRA", 1, 2, "Implicit")    \* 0x4A
    @@ 70 :> OpCode("LSR", 2, 5, "ZeroPage")    \* 0x46
    @@ 86 :> OpCode("LSR", 2, 6, "ZeroPageX")    \* 0x56
    @@ 78 :> OpCode("LSR", 3, 6, "Absolute")    \* 0x4E
    @@ 94 :> OpCode("LSR", 3, 7, "AbsoluteX")    \* 0x5E
    @@ 42 :> OpCode("ROLA", 1, 2, "Implicit")    \* 0x2A
    @@ 38 :> OpCode("ROL", 2, 5, "ZeroPage")    \* 0x26
    @@ 54 :> OpCode("ROL", 2, 6, "ZeroPageX")    \* 0x36
    @@ 46 :> OpCode("ROL", 3, 6, "Absolute")    \* 0x2E
    @@ 62 :> OpCode("ROL", 3, 7, "AbsoluteX")    \* 0x3E
    @@ 106 :> OpCode("RORA", 1, 2, "Implicit")    \* 0x6A
    @@ 102 :> OpCode("ROR", 2, 5, "ZeroPage")    \* 0x66
    @@ 118 :> OpCode("ROR", 2, 6, "ZeroPageX")    \* 0x76
    @@ 110 :> OpCode("ROR", 3, 6, "Absolute")    \* 0x6E
    @@ 126 :> OpCode("ROR", 3, 7, "AbsoluteX")    \* 0x7E

\* CpuFlags::contains / insert / remove on the status byte
flag_contains(p, f) == BitAnd(p, f) # 0

flag_insert(p, f) == BitOr(p, f)

flag_remove(p, f) == BitAnd(p, 255 - f)

flag_set(p, f, on) == IF on THEN flag_insert(p, f) ELSE flag_remove(p, f)

\* the current CPU as a record
CpuNow ==
    [a |-> register_a, x |-> register_x, y |-> register_y, p |-> status,
     sp |-> stack_pointer, pc |-> program_counter, mem |-> memory,
     fault |-> "none"]

Panic(c, f) == [c EXCEPT !.fault = f]

\* CPU::mem_read(addr): self.memory[addr as usize]; the array has 0xFFFF cells
mem_read_ok(addr) == addr < MEMORY_LEN

mem_read(c, addr) == Get(c.mem, addr)

\* CPU::mem_write(addr, data)
mem_write(c, addr, data) ==
    IF addr < MEMORY_LEN
    THEN [c EXCEPT !.mem = Put(@, addr, data)]
    ELSE Panic(c, "index_out_of_bounds")

\* CPU::mem_read_u16(addr): lo at addr, hi at addr + 1; the read of the low
\* byte comes first, so addr = 0xFFFF stops on the index before addr + 1
mem_read_u16_ok(addr) == mem_read_ok(addr) /\ mem_read_ok(addr + 1)

mem_read_u16(c, addr) == BitOr(mem_read(c, addr + 1) * 256, mem_read(c, addr))

\* CPU::mem_write_u16(addr, data)
mem_write_u16(c, addr, data) ==
    LET hi == data \div 256
        lo == BitAnd(data, 255)
        c1 == mem_write(c, addr, lo)
    IN  IF c1.fault # "none" THEN c1 ELSE mem_write(c1, addr + 1, hi)

\* a stack_push that moves the pointer before it writes the cell
stack_push_pre_decrement(c, data) ==
    [mem_write(c, STACK_PAGE + WrapSub8(c.sp, 1), data) EXCEPT
        !.sp = WrapSub8(c.sp, 1)]

\* CPU::stack_push(data)
stack_push(c, data) ==
    LET c1 == mem_write(c, STACK_PAGE + c.sp, data)
    IN  [c1 EXCEPT !.sp = WrapSub8(c.sp, 1)]

\* a stack_pop that reads the cell before it moves the pointer
stack_pop_post_increment(c) ==
    [cpu |-> [c EXCEPT !.sp = WrapAdd8(c.sp, 1)],
     value |-> mem_read(c, STACK_PAGE + c.sp)]

\* CPU::stack_pop(): the CPU after the pointer moved, and the byte read
stack_pop(c) ==
    LET sp1 == WrapAdd8(c.sp, 1)
    IN  [cpu |-> [c EXCEPT !.sp = sp1], value |-> mem_read(c, STACK_PAGE + sp1)]

\* a zero-page index that carries into page one
zero_page_indexed_carry(pos, r) == pos + r

\* the ZeroPageX / ZeroPageY arms: pos.wrapping_add(register) as u16
zero_page_indexed(pos, r) == WrapAdd8(pos, r)

\* an (Indirect,X) that reads the pointer's high byte at ptr + 1 without
\* wrapping inside page zero
indirect_x_address_linear(c, base) ==
    BitOr(mem_read(c, WrapAdd8(base, c.x) + 1) * 256,
          mem_read(c, WrapAdd8(base, c.x)))

\* the IndirectX arm: ptr = base.wrapping_add(x); lo at ptr, hi at
\* ptr.wrapping_add(1)
indirect_x_address(c, base) ==
    BitOr(mem_read(c, WrapAdd8(WrapAdd8(base, c.x), 1)) * 256,
          mem_read(c, WrapAdd8(base, c.x)))

\* CPU::get_operand_address(mode): the address, or the panic met computing it
get_operand_address(c, mode) ==
    CASE mode = "Immediate" -> [addr |-> c.pc, fault |-> "none"]
      [] mode = "ZeroPage" ->
            IF mem_read_ok(c.pc)
            THEN [addr |-> mem_read(c, c.pc), fault |-> "none"]
            ELSE [addr |-> 0, fault |-> "index_out_of_bounds"]
      [] mode = "Absolute" ->
            IF mem_read_u16_ok(c.pc)
            THEN [addr |-> mem_read_u16(c, c.pc), fault |-> "none"]
            ELSE [addr |-> 0, fault |-> "index_out_of_bounds"]
      [] mode = "ZeroPageX" ->
            IF mem_read_ok(c.pc)
            THEN [addr |-> zero_page_indexed(mem_read(c, c.pc), c.x),
                  fault |-> "none"]
            ELSE [addr |-> 0, fault |-> "index_out_of_bounds"]
      [] mode = "ZeroPageY" ->
            IF mem_read_ok(c.pc)
            THEN [addr |-> zero_page_indexed(mem_read(c, c.pc), c.y),
                  fault |-> "none"]
            ELSE [addr |-> 0, fault |-> "index_out_of_bounds"]
      [] mode = "AbsoluteX" ->
            IF mem_read_u16_ok(c.pc)
            THEN [addr |-> WrapAdd16(mem_read_u16(c, c.pc), c.x), fault |-> "none"]
            ELSE [addr |-> 0, fault |-> "index_out_of_bounds"]
      [] mode = "AbsoluteY" ->
            IF mem_read_u16_ok(c.pc)
            THEN [addr |-> WrapAdd16(mem_read_u16(c, c.pc), c.y), fault |-> "none"]
            ELSE [addr |-> 0, fault |-> "index_out_of_bounds"]
      [] mode = "IndirectX" ->
            IF mem_read_ok(c.pc)
            THEN [addr |-> indirect_x_address(c, mem_read(c, c.pc)),
                  fault |-> "none"]
            ELSE [addr |-> 0, fault |-> "index_out_of_bounds"]
      [] mode = "IndirectY" ->
            IF mem_read_ok(c.pc)
            THEN LET base == mem_read(c, c.pc)
                     lo   == mem_read(c, base)
                     hi   == mem_read(c, WrapAdd8(base, 1))
                     deref_base == BitOr(hi * 256, lo)
                 IN  [addr |-> WrapAdd16(deref_base, c.y), fault |-> "none"]
            ELSE [addr |-> 0, fault |-> "index_out_of_bounds"]
      [] OTHER -> [addr |-> 0, fault |-> "mode_not_supported"]

\* the byte at the operand address ea, and that address
value_at(c, ea) ==
    IF ea.fault # "none" THEN [addr |-> 0, value |-> 0, fault |-> ea.fault]
    ELSE IF ~mem_read_ok(ea.addr)
    THEN [addr |-> ea.addr, value |-> 0, fault |-> "index_out_of_bounds"]
    ELSE [addr |-> ea.addr, value |-> mem_read(c, ea.addr), fault |-> "none"]

\* CPU::get_operand_value(mode): the byte at the operand address
get_operand_value(c, mode) == value_at(c, get_operand_address(c, mode))

\* flags taken from the result read as a signed comparison with zero:
\* Zero when the low seven bits are clear
update_z_and_n_flags_low7(c, result) ==
    [c EXCEPT !.p = flag_set(flag_set(c.p, ZERO, BitAnd(result, 127) = 0),
                             NEGATIVE, BitAnd(result, 128) # 0)]

\* CPU::update_z_and_n_flags(result)
update_z_and_n_flags(c, result) ==
    LET p1 == flag_set(c.p, ZERO, result = 0)
        p2 == flag_set(p1, NEGATIVE, BitAnd(result, 128) # 0)
    IN  [c EXCEPT !.p = p2]

\* register `reg` takes `value`, followed by update_z_and_n_flags(value)
set_register(c, reg, value) ==
    update_z_and_n_flags([c EXCEPT ![reg] = value], value)

\* a load of the operand v into register `reg`
load_register(c, reg, v) ==
    IF v.fault # "none" THEN Panic(c, v.fault)
    ELSE set_register(c, reg, v.value)

lda(c, mode) == load_register(c, "a", get_operand_value(c, mode))

ldx(c, mode) == load_register(c, "x", get_operand_value(c, mode))

ldy(c, mode) == load_register(c, "y", get_operand_value(c, mode))

tax(c, mode) == set_register(c, "x", c.a)

tay(c, mode) == set_register(c, "y", c.a)

tsx(c, mode) == set_register(c, "x", c.sp)

txa(c, mode) == set_register(c, "a", c.x)

txs(c, mode) == set_register(c, "sp", c.x)

tya(c, mode) == set_register(c, "a", c.y)

\* a store of `data` at the operand address ea
store_register(c, data, ea) ==
    IF ea.fault # "none" THEN Panic(c, ea.fault)
    ELSE mem_write(c, ea.addr, data)

sta(c, mode) == store_register(c, c.a, get_operand_address(c, mode))

stx(c, mode) == store_register(c, c.x, get_operand_address(c, mode))

sty(c, mode) == store_register(c, c.y, get_operand_address(c, mode))

pha(c, mode) == stack_push(c, c.a)

php(c, mode) == stack_push(c, flag_insert(flag_insert(c.p, BREAK), BIT5))

\* the accumulator takes the byte stack_pop returned
pla_popped(r) == set_register(r.cpu, "a", r.value)

pla(c, mode) == pla_popped(stack_pop(c))

\* the status takes the byte stack_pop returned, less BIT5 and BREAK;
\* CpuFlags names all eight bits, so from_bits accepts every byte
plp_popped(r) ==
    [r.cpu EXCEPT !.p = flag_remove(flag_remove(r.value, BIT5), BREAK)]

plp(c, mode) == plp_popped(stack_pop(c))

\* the memory cell at addr takes `value`, followed by update_z_and_n_flags(value)
set_memory(c, addr, value) ==
    update_z_and_n_flags(mem_write(c, addr, value), value)

\* dec / inc that stop at the ends of the byte range
step_memory_saturating(c, o, delta) ==
    IF o.fault # "none" THEN Panic(c, o.fault)
    ELSE set_memory(c, o.addr,
                    IF delta = 1 THEN (IF o.value = 255 THEN 255 ELSE o.value + 1)
                    ELSE (IF o.value = 0 THEN 0 ELSE o.value - 1))

\* dec / inc: the operand o plus `delta`, wrapping, written back
step_memory(c, o, delta) ==
    IF o.fault # "none" THEN Panic(c, o.fault)
    ELSE set_memory(c, o.addr, (o.value + delta) % 256)

dec(c, mode) == step_memory(c, get_operand_value(c, mode), 255)

dex(c, mode) == set_register(c, "x", WrapSub8(c.x, 1))

dey(c, mode) == set_register(c, "y", WrapSub8(c.y, 1))

inc(c, mode) == step_memory(c, get_operand_value(c, mode), 1)

inx(c, mode) == set_register(c, "x", WrapAdd8(c.x, 1))

iny(c, mode) == set_register(c, "y", WrapAdd8(c.y, 1))

and(c, mode) ==
    load_register(c, "a", [get_operand_value(c, mode) EXCEPT !.value = BitAnd(c.a, @)])

eor(c, mode) ==
    load_register(c, "a", [get_operand_value(c, mode) EXCEPT !.value = BitXor(c.a, @)])

ora(c, mode) ==
    load_register(c, "a", [get_operand_value(c, mode) EXCEPT !.value = BitOr(c.a, @)])

\* the four shifts of one byte: the carry out and the shifted value
shift_left(value, carry_in) ==
    [carry |-> BitAnd(value, 128) = 128,
     value |-> BitOr((value * 2) % 256, IF carry_in THEN 1 ELSE 0)]

\* a right shift that feeds the carry into bit 6
shift_right_into_bit6(value, carry_in) ==
    [carry |-> BitAnd(value, 1) = 1,
     value |-> BitOr(value \div 2, IF carry_in THEN 64 ELSE 0)]

shift_right(value, carry_in) ==
    [carry |-> BitAnd(value, 1) = 1,
     value |-> BitOr(value \div 2, IF carry_in THEN 128 ELSE 0)]

\* the carry flag takes `carry`
set_carry(c, carry) == [c EXCEPT !.p = flag_set(@, CARRY, carry)]

\* the shift s of the byte at o.addr is written back
shift_memory(c, o, s) ==
    IF o.fault # "none" THEN Panic(c, o.fault)
    ELSE set_memory(set_carry(c, s.carry), o.addr, s.value)

\* the shift s of the accumulator is written back
shift_accumulator(c, s) == set_register(set_carry(c, s.carry), "a", s.value)

\* the shift picked by `left` and `rotate` of the byte at the operand address;
\* get_operand_value reads the address get_operand_address computed
shift_operand(c, o, left, rotate) ==
    shift_memory(c, o,
                 IF left
                 THEN shift_left(o.value, rotate /\ flag_contains(c.p, CARRY))
                 ELSE shift_right(o.value, rotate /\ flag_contains(c.p, CARRY)))

asl(c, mode) == shift_operand(c, get_operand_value(c, mode), TRUE, FALSE)

asla(c, mode) == shift_accumulator(c, shift_left(c.a, FALSE))

lsr(c, mode) == shift_operand(c, get_operand_value(c, mode), FALSE, FALSE)

lsra(c, mode) == shift_accumulator(c, shift_right(c.a, FALSE))

rol(c, mode) == shift_operand(c, get_operand_value(c, mode), TRUE, TRUE)

\* a rotate left that shifts a zero into bit 0
rola_without_carry(c, mode) == shift_accumulator(c, shift_left(c.a, FALSE))

rola(c, mode) ==
    shift_accumulator(c, shift_left(c.a, flag_contains(c.p, CARRY)))

ror(c, mode) == shift_operand(c, get_operand_value(c, mode), FALSE, TRUE)

rora(c, mode) ==
    shift_accumulator(c, shift_right(c.a, flag_contains(c.p, CARRY)))

clc(c, mode) == [c EXCEPT !.p = flag_remove(@, CARRY)]

cld(c, mode) == [c EXCEPT !.p = flag_remove(@, DECIMAL)]

cli(c, mode) == [c EXCEPT !.p = flag_remove(@, INTERRUPT)]

clv(c, mode) == [c EXCEPT !.p = flag_remove(@, OVERFLOW)]

sec(c, mode) == [c EXCEPT !.p = flag_insert(@, CARRY)]

sed(c, mode) == [c EXCEPT !.p = flag_insert(@, DECIMAL)]

sei(c, mode) == [c EXCEPT !.p = flag_insert(@, INTERRUPT)]

\* cmp / cpx / cpy: the register against the operand v
compare(c, register, v) ==
    IF v.fault # "none" THEN Panic(c, v.fault)
    ELSE update_z_and_n_flags(set_carry(c, ~(register < v.value)),
                              WrapSub8(register, v.value))

cmp(c, mode) == compare(c, c.a, get_operand_value(c, mode))

cpx(c, mode) == compare(c, c.x, get_operand_value(c, mode))

cpy(c, mode) == compare(c, c.y, get_operand_value(c, mode))

\* adc is todo!(""): it panics before it reads anything
adc(c, mode) == Panic(c, "not_yet_implemented")

\* the match of CPU::run on opcode.instruction
execute(c, instruction, mode) ==
    CASE instruction = "ADC" -> adc(c, mode)
      [] instruction = "TAX" -> tax(c, mode)
      [] instruction = "TAY" -> tay(c, mode)
      [] instruction = "TSX" -> tsx(c, mode)
      [] instruction = "TXA" -> txa(c, mode)
      [] instruction = "TXS" -> txs(c, mode)
      [] instruction = "TYA" -> tya(c, mode)
      [] instruction = "LDA" -> lda(c, mode)
      [] instruction = "LDX" -> ldx(c, mode)
      [] instruction = "LDY" -> ldy(c, mode)
      [] instruction = "STA" -> sta(c, mode)
      [] instruction = "STX" -> stx(c, mode)
      [] instruction = "STY" -> sty(c, mode)
      [] instruction = "PHA" -> pha(c, mode)
      [] instruction = "PHP" -> php(c, mode)
      [] instruction = "PLA" -> pla(c, mode)
      [] instruction = "PLP" -> plp(c, mode)
      [] instruction = "DEC" -> dec(c, mode)
      [] instruction = "DEX" -> dex(c, mode)
      [] instruction = "DEY" -> dey(c, mode)
      [] instruction = "INC" -> inc(c, mode)
      [] instruction = "INX" -> inx(c, mode)
      [] instruction = "INY" -> iny(c, mode)
      [] instruction = "AND" -> and(c, mode)
      [] instruction = "EOR" -> eor(c, mode)
      [] instruction = "ORA" -> ora(c, mode)
      [] instruction = "ASL" -> asl(c, mode)
      [] instruction = "ASLA" -> asla(c, mode)
      [] instruction = "LSR" -> lsr(c, mode)
      [] instruction = "LSRA" -> lsra(c, mode)
      [] instruction = "ROL" -> rol(c, mode)
      [] instruction = "ROLA" -> rola(c, mode)
      [] instruction = "ROR" -> ror(c, mode)
      [] instruction = "RORA" -> rora(c, mode)
      [] instruction = "CLC" -> clc(c, mode)
      [] instruction = "CLD" -> cld(c, mode)
      [] instruction = "CLI" -> cli(c, mode)
      [] instruction = "CLV" -> clv(c, mode)
      [] instruction = "SEC" -> sec(c, mode)
      [] instruction = "SED" -> sed(c, mode)
      [] instruction = "SEI" -> sei(c, mode)
      [] instruction = "CMP" -> cmp(c, mode)
      [] instruction = "CPX" -> cpx(c, mode)
      [] instruction = "CPY" -> cpy(c, mode)

\* a BRK arm that sets the Interrupt-disable flag before it returns
brk_sets_interrupt(c) == [c EXCEPT !.p = flag_insert(@, INTERRUPT)]

\* the BRK arm of CPU::run: `return`, with nothing else done
brk(c) == c

\* an interpreter that steps back onto the opcode it has just executed
advance_onto_opcode(c, bytes) ==
    IF c.fault # "none" THEN c ELSE [c EXCEPT !.pc = c.pc - 1]

\* self.program_counter += opcode.bytes - 1, reached when nothing panicked
advance(c, bytes) ==
    IF c.fault # "none" THEN c ELSE [c EXCEPT !.pc = c.pc + bytes - 1]

\* the arm of the table entry `opcode`, on the CPU c1 that has fetched
decoded(c1, opcode_byte, opcode) ==
    [cpu |-> IF opcode.instruction = "BRK" THEN brk(c1)
             ELSE advance(execute(c1, opcode.instruction, opcode.addressing_mode),
                          opcode.bytes),
     returned |-> opcode.instruction = "BRK",
     opcode |-> opcode_byte,
     instruction |-> opcode.instruction,
     mode |-> opcode.addressing_mode,
     bytes |-> opcode.bytes]

\* a lookup that steps over a byte the table does not hold
fetched_skips_unknown(c1, opcode_byte) ==
    IF opcode_byte \notin DOMAIN OPCODES
    THEN [cpu |-> c1, returned |-> FALSE, opcode |-> opcode_byte,
          instruction |-> "none", mode |-> "none", bytes |-> 1]
    ELSE decoded(c1, opcode_byte, OPCODES[opcode_byte])

\* OPCODES.get(&opcode_byte), on the CPU c1 that has fetched
fetched(c1, opcode_byte) ==
    IF opcode_byte \notin DOMAIN OPCODES
    THEN [cpu |-> Panic(c1, "illegal_instruction"), returned |-> FALSE,
          opcode |-> opcode_byte, instruction |-> "none",
          mode |-> "none", bytes |-> 0]
    ELSE decoded(c1, opcode_byte, OPCODES[opcode_byte])

\* one iteration of the loop of CPU::run: the CPU it leaves, whether the loop
\* returned, and the table entry it decoded
run_iteration(c) ==
    IF ~mem_read_ok(c.pc)
    THEN [cpu |-> Panic(c, "index_out_of_bounds"), returned |-> FALSE,
          opcode |-> 0, instruction |-> "none", mode |-> "none", bytes |-> 0]
    ELSE fetched([c EXCEPT !.pc = c.pc + 1], mem_read(c, c.pc))

\* memory[base .. base + program.len()].copy_from_slice(&program)
RECURSIVE copy_from_slice(_, _, _)
copy_from_slice(mem, base, program) ==
    IF program = << >> THEN mem
    ELSE copy_from_slice(Put(mem, base, Head(program)), base + 1, Tail(program))

\* a load that begins by clearing the memory
load_into_cleared_memory(c, program) ==
    mem_write_u16([c EXCEPT !.mem = copy_from_slice(EmptyMem, 32768, program)],
                  65532, 32768)

\* CPU::load(program)
load(c, program) ==
    mem_write_u16([c EXCEPT !.mem = copy_from_slice(@, 32768, program)],
                  65532, 32768)

\* a reset that reads the vector high byte first
reset_big_endian(c) ==
    [c EXCEPT !.a = 0, !.x = 0, !.y = 0, !.p = 0, !.sp = STACK_START,
              !.pc = BitOr(mem_read(c, 65532) * 256, mem_read(c, 65533))]

\* CPU::reset()
reset(c) ==
    [c EXCEPT !.a = 0, !.x = 0, !.y = 0, !.p = 0, !.sp = STACK_START,
              !.pc = mem_read_u16(c, 65532)]

(***************************************************************************)
(* The CPU as its clients drive it (hw/cpu/tests.rs): memory is prepared,  *)
(* a program is loaded, the public registers are assigned, and run() walks *)
(* the program one instruction per step until BRK returns or a panic ends  *)
(* the process.                                                            *)
(***************************************************************************)

MaxPokes == 1

\* the operand bytes the one-instruction programs carry
OperandPairs == {<<16, 0>>, <<255, 1>>}

\* the instruction `op` with operand bytes `o`, as long as its table entry says
Encode(op, o) ==
    IF OPCODES[op].bytes = 1 THEN <<op>>
    ELSE IF OPCODES[op].bytes = 2 THEN <<op, o[1]>>
    ELSE <<op, o[1], o[2]>>

\* programs of several instructions around the stack, and opcodes the table
\* does not hold
StackPrograms ==
    { <<72, 104>>,                      \* PHA; PLA
      <<72, 169, 66, 104>>,             \* PHA; LDA #$42; PLA
      <<72, 8, 40, 104>>,               \* PHA; PHP; PLP; PLA
      <<72, 72, 104, 104>>,             \* PHA; PHA; PLA; PLA
      <<72, 169, 66, 141, 255, 1, 104>>,\* PHA; LDA #$42; STA $01FF; PLA
      <<72, 154, 104>>,                 \* PHA; TXS; PLA
      <<8, 40>>,                        \* PHP; PLP
      <<8, 232, 40>>,                   \* PHP; INX; PLP
      <<8, 104>>,                       \* PHP; PLA
      <<72, 40>>,                       \* PHA; PLP
      <<173, 255, 255>>,                \* LDA $FFFF
      <<234>>,                          \* NOP
      <<24>>,                           \* CLC
      <<201, 16>>,                      \* CMP #$10
      <<76, 0, 128>> }                  \* JMP $8000

\* programs that meet a byte OPCODES does not hold, first or after a load
AbsentPrograms ==
    { <<2>>,                            \* 0x02, not a 6502 instruction
      <<56>>,                           \* SEC
      <<224, 16>>,                      \* CPX #$10
      <<192, 16>>,                      \* CPY #$10
      <<169, 66, 234>>,                 \* LDA #$42; NOP
      <<162, 128, 201, 16>> }           \* LDX #$80; CMP #$10

Programs ==
    {Encode(op, o) : op \in DOMAIN OPCODES, o \in OperandPairs}
        \cup StackPrograms \cup AbsentPrograms

\* the values a client assigns to the public fields before run(): boundary
\* register files, and every single bit of A and of P
RegisterFiles ==
    { [a |-> 0,   x |-> 0,   y |-> 0,   p |-> 0,   sp |-> 255, pc |-> 32768],
      [a |-> 128, x |-> 1,   y |-> 2,   p |-> 255, sp |-> 255, pc |-> 32768],
      [a |-> 127, x |-> 255, y |-> 255, p |-> 1,   sp |-> 253, pc |-> 32768],
      [a |-> 255, x |-> 16,  y |-> 240, p |-> 195, sp |-> 0,   pc |-> 32768],
      [a |-> 1,   x |-> 128, y |-> 1,   p |-> 48,  sp |-> 128, pc |-> 32768],
      [a |-> 66,  x |-> 0,   y |-> 16,  p |-> 36,  sp |-> 1,   pc |-> 32769] }
    \cup {[a |-> v, x |-> 0, y |-> 0, p |-> v, sp |-> 255, pc |-> 32768] :
             v \in {1, 2, 4, 8, 16, 32, 64, 128}}

\* the cells a test writes with mem_write before the run
MemWrites == {<<16, 85>>, <<17, 128>>, <<65532, 2>>, <<65533, 0>>, <<65535, 1>>}

NoEntry ==
    [kind |-> "none", sp |-> 0, val |-> 0, byte |-> 0, fresh |-> FALSE, ok |-> FALSE]

NoPull == [entry |-> NoEntry, balanced |-> FALSE]

\* the record of an operation that is not an instruction
ClientOp(op) ==
    [op |-> op, opcode |-> 0, instruction |-> "none", mode |-> "none",
     bytes |-> 0, operand |-> 0, before |-> CpuNow]

\* the CPU fields take the values of the record c
CpuBecomes(c) ==
    /\ register_a' = c.a
    /\ register_x' = c.x
    /\ register_y' = c.y
    /\ status' = c.p
    /\ stack_pointer' = c.sp
    /\ program_counter' = c.pc
    /\ memory' = c.mem

\* the shadow entries after a step: none is fresh any more, and an entry whose
\* stack cell no longer holds the pushed byte is no longer intact
Aged(sh, mem) ==
    [i \in 1..Len(sh) |->
        [sh[i] EXCEPT !.fresh = FALSE,
                      !.ok = @ /\ Get(mem, STACK_PAGE + sh[i].sp) = sh[i].byte]]

\* the shadow stack after the instruction that took the CPU from c0 to c1
ShadowAfter(instruction, c0, c1) ==
    LET aged == Aged(shadow, c1.mem)
    IN  CASE instruction = "PHA" ->
                Append(aged, [kind |-> "A", sp |-> c0.sp, val |-> c0.a,
                              byte |-> c0.a, fresh |-> TRUE, ok |-> TRUE])
          [] instruction = "PHP" ->
                Append(aged, [kind |-> "P", sp |-> c0.sp, val |-> c0.p,
                              byte |-> Get(c1.mem, STACK_PAGE + c0.sp),
                              fresh |-> TRUE, ok |-> TRUE])
          [] instruction \in {"PLA", "PLP"} ->
                IF aged = << >> THEN << >> ELSE SubSeq(aged, 1, Len(aged) - 1)
          [] instruction = "TXS" -> << >>
          [] OTHER -> aged

\* the push a pull consumed, and whether the stack was balanced in between:
\* the pointer is back just below the pushed cell and the cell is intact
PullAfter(instruction, c0) ==
    IF instruction \in {"PLA", "PLP"} /\ shadow # << >>
    THEN LET e == shadow[Len(shadow)]
         IN  [entry |-> e,
              balanced |-> /\ c0.sp = WrapSub8(e.sp, 1)
                           /\ e.ok
                           /\ Get(c0.mem, STACK_PAGE + e.sp) = e.byte]
    ELSE NoPull

\* cpu.mem_write(addr, data) before the run
CpuMemWrite(addr, data) ==
    /\ cpu_mode \in {"idle", "loaded"}
    /\ cpu_pokes < MaxPokes
    /\ CpuBecomes(mem_write(CpuNow, addr, data))
    /\ cpu_mode' = IF mem_read_ok(addr) THEN cpu_mode ELSE "index_out_of_bounds"
    /\ cpu_prev' = [ClientOp("mem_write") EXCEPT !.operand = addr]
    /\ cpu_pokes' = cpu_pokes + 1
    /\ UNCHANGED <<shadow, pulled, bus_vars, render, traced, ipc>>

\* cpu.load(program)
CpuLoad(program) ==
    /\ cpu_mode = "idle"
    /\ CpuBecomes(load(CpuNow, program))
    /\ cpu_mode' = "loaded"
    /\ cpu_prev' = ClientOp("load")
    /\ UNCHANGED <<shadow, pulled, cpu_pokes, bus_vars, render, traced, ipc>>

\* cpu.reset()
CpuReset ==
    /\ cpu_mode \in {"loaded", "assigned"}
    /\ CpuBecomes(reset(CpuNow))
    /\ cpu_mode' = "reset"
    /\ cpu_prev' = ClientOp("reset")
    /\ UNCHANGED <<shadow, pulled, cpu_pokes, bus_vars, render, traced, ipc>>

\* the client assigns the public fields
CpuAssign(r) ==
    /\ cpu_mode \in {"loaded", "reset"}
    /\ register_a' = r.a
    /\ register_x' = r.x
    /\ register_y' = r.y
    /\ status' = r.p
    /\ stack_pointer' = r.sp
    /\ program_counter' = r.pc
    /\ cpu_mode' = "assigned"
    /\ cpu_prev' = ClientOp("assign")
    /\ UNCHANGED <<memory, shadow, pulled, cpu_pokes, bus_vars, render, traced, ipc>>

\* cpu.run(): the loop is entered
CpuRun ==
    /\ cpu_mode \in {"reset", "assigned"}
    /\ cpu_mode' = "running"
    /\ cpu_prev' = ClientOp("run")
    /\ UNCHANGED <<register_a, register_x, register_y, status, stack_pointer,
                   program_counter, memory, shadow, pulled, cpu_pokes, bus_vars, render, traced, ipc>>

\* cpu.load_and_run(program): load, reset, and the loop is entered
CpuLoadAndRun(program) ==
    /\ cpu_mode = "idle"
    /\ CpuBecomes(reset(load(CpuNow, program)))
    /\ cpu_mode' = "running"
    /\ cpu_prev' = [ClientOp("load_and_run") EXCEPT !.operand = Len(program)]
    /\ UNCHANGED <<shadow, pulled, cpu_pokes, bus_vars, render, traced, ipc>>

\* the byte the instruction of mode `mode` at c0.pc works on
OperandOf(c0, mode) ==
    IF mode \in {"none", "Implicit"} THEN 0
    ELSE get_operand_value([c0 EXCEPT !.pc = c0.pc + 1], mode).value

\* the iteration r of the loop, begun on the CPU c0, has run
Stepped(c0, r) ==
    /\ CpuBecomes(r.cpu)
    /\ cpu_mode' = IF r.cpu.fault # "none" THEN r.cpu.fault
                   ELSE IF r.returned THEN "returned" ELSE "running"
    /\ cpu_prev' = [op |-> "step", opcode |-> r.opcode,
                    instruction |-> r.instruction, mode |-> r.mode,
                    bytes |-> r.bytes, operand |-> OperandOf(c0, r.mode),
                    before |-> c0]
    /\ shadow' = IF r.cpu.fault # "none" \/ r.returned THEN shadow
                 ELSE ShadowAfter(r.instruction, c0, r.cpu)
    /\ pulled' = IF r.cpu.fault # "none" \/ r.returned THEN NoPull
                 ELSE PullAfter(r.instruction, c0)

\* one iteration of the loop of run()
CpuStep ==
    /\ cpu_mode = "running"
    /\ Stepped(CpuNow, run_iteration(CpuNow))
    /\ UNCHANGED <<cpu_pokes, bus_vars, render, traced, ipc>>

Next ==
    \/ \E w \in MemWrites : CpuMemWrite(w[1], w[2])
    \/ \E program \in Programs : CpuLoad(program)
    \/ CpuReset
    \/ \E r \in RegisterFiles : CpuAssign(r)
    \/ CpuRun
    \/ \E program \in Programs : CpuLoadAndRun(program)
    \/ CpuStep

(***************************************************************************)
(* Specifications                                                          *)
(***************************************************************************)

BusSpec == BusSpecInit /\ [][BusNext]_vars

\* ---- the bus late in a frame: FrameSpec
\*
\* A tick advances the PPU by at most 255 of the 89342 cycles of a frame, so
\* the runs start from the states a bus is in after Control was written once
\* (0x00 or 0x80) and the PPU was ticked, without overflow, to the start of a
\* frame, to the end of scanlines 240, 260 and 261, or into scanline 241.
\* During vertical blank the status may have been read and the NMI polled.
FrameInit ==
    /\ cartridge = NoCartridge
    /\ cpu_vram = EmptyMem
    /\ \E pos \in {<<0, 0>>, <<240, 339>>, <<241, 1>>, <<260, 338>>, <<261, 339>>},
          ctrl \in {0, 128}, seen \in BOOLEAN, polled \in BOOLEAN :
          LET vblank == pos[1] >= 241 /\ pos[1] <= 260
              raised == ctrl = 128 /\ pos[1] >= 241
          IN  /\ seen => vblank
              /\ polled => raised
              /\ ppu = [ppu_new_empty_rom EXCEPT
                            !.ctrl = ctrl,
                            !.scanline = pos[1],
                            !.cycles = pos[2],
                            !.status = IF vblank /\ ~seen THEN 128 ELSE 0,
                            !.nmi_interrupt = IF raised /\ ~polled
                                              THEN SomeNmi ELSE NoNmi]
              /\ cycles = (pos[1] * 341 + pos[2]) \div 3
              /\ ppu_advanced = pos[1] * 341 + pos[2]
              /\ bus_hist = [prev |-> [kind |-> "new", addr |-> 0, data |-> 0,
                                       value |-> 0, port |-> "none",
                                       fault |-> "none"],
                             frames |-> 0, callbacks |-> 0,
                             delivered |-> IF polled THEN 1 ELSE 0,
                             ctrl_rewritten |-> FALSE, joy |-> JoypadIdle]
    /\ bus_mode = "ok"
    /\ bus_last = [kind |-> "new", addr |-> 0, data |-> 0, value |-> 0,
                   port |-> "none", fault |-> "none"]
    /\ bus_pre = [cpu_vram |-> EmptyMem, ppu |-> ppu, cycles |-> cycles,
                  cartridge |-> cartridge]
    /\ bus_ops = 0
    /\ register_a = 0
    /\ register_x = 0
    /\ register_y = 0
    /\ status = 0
    /\ stack_pointer = 0
    /\ program_counter = 0
    /\ memory = EmptyMem
    /\ cpu_mode = "idle"
    /\ cpu_prev = [op |-> "new", opcode |-> 0, instruction |-> "none",
                    mode |-> "none", bytes |-> 0, operand |-> 0,
                    before |-> [a |-> 0, x |-> 0, y |-> 0, p |-> 0, sp |-> 0,
                                pc |-> 0, mem |-> EmptyMem, fault |-> "none"]]
    /\ shadow = << >>
    /\ pulled = [entry |-> [kind |-> "none", sp |-> 0, val |-> 0, byte |-> 0,
                            fresh |-> FALSE, ok |-> FALSE],
                 balanced |-> FALSE]
    /\ cpu_pokes = 0
    /\ render = RenderIdle
    /\ traced = NoTrace
    /\ ipc = IpcIdle

\* ticks, polls, reads of Status (0x2002 and its mirror 0x3FFA), writes of
\* Control (0x2000), Scroll (0x2005) and Address (0x2006 and its mirror 0x3FFE)
FrameNext ==
    \/ \E n \in TickCounts : BusTick(n)
    \/ BusPollNmi
    \/ \E a \in {8194, 16378} : BusRead(a)
    \/ \E w \in {<<8192, 128>>, <<8192, 0>>, <<8197, 8>>, <<8198, 63>>,
                  <<16382, 33>>} : BusWrite(w[1], w[2])

FrameSpec == FrameInit /\ [][FrameNext]_vars

\* the CPU after CPU::new(), beside a bus that nothing drives
SpecInit ==
    /\ cartridge = NoCartridge
    /\ cpu_vram = EmptyMem
    /\ ppu = bus_new_ppu(NoCartridge)
    /\ cycles = 0
    /\ bus_mode = "ok"
    /\ bus_last = [kind |-> "new", addr |-> 0, data |-> 0, value |-> 0,
                   port |-> "none", fault |-> "none"]
    /\ bus_pre = [cpu_vram |-> EmptyMem, ppu |-> bus_new_ppu(NoCartridge),
                  cycles |-> 0, cartridge |-> NoCartridge]
    /\ ppu_advanced = 0
    /\ bus_ops = 0
    /\ bus_hist = [prev |-> bus_last, frames |-> 0, callbacks |-> 0,
                   delivered |-> 0, ctrl_rewritten |-> FALSE, joy |-> JoypadIdle]
    /\ register_a = 0
    /\ register_x = 0
    /\ register_y = 0
    /\ status = 0
    /\ stack_pointer = 0
    /\ program_counter = 0
    /\ memory = EmptyMem
    /\ cpu_mode = "idle"
    /\ cpu_prev = [op |-> "new", opcode |-> 0, instruction |-> "none",
                   mode |-> "none", bytes |-> 0, operand |-> 0,
                   before |-> [a |-> 0, x |-> 0, y |-> 0, p |-> 0, sp |-> 0,
                               pc |-> 0, mem |-> EmptyMem, fault |-> "none"]]
    /\ shadow = << >>
    /\ pulled = NoPull
    /\ cpu_pokes = 0
    /\ render = RenderIdle
    /\ traced = NoTrace
    /\ ipc = IpcIdle

Spec == SpecInit /\ [][Next]_vars

\* ---- the CPU beside a bus whose PPU has just raised an NMI: SystemSpec
\*
\* The bus is in the state of FrameSpec after the tick that entered scanline
\* 241 with NMI_enable set; the CPU is as CPU::new() left it.  CPU::run holds
\* no bus, so the CPU's actions leave the bus as it is.
SystemInit ==
    /\ cartridge = NoCartridge
    /\ cpu_vram = EmptyMem
    /\ ppu = [ppu_new_empty_rom EXCEPT !.ctrl = 128, !.scanline = 241,
                                       !.cycles = 1, !.status = 128,
                                       !.nmi_interrupt = SomeNmi]
    /\ cycles = 27394
    /\ bus_mode = "ok"
    /\ bus_last = [kind |-> "tick", addr |-> 0, data |-> 1, value |-> 3,
                   port |-> "tick", fault |-> "none"]
    /\ bus_pre = [cpu_vram |-> EmptyMem,
                  ppu |-> [ppu_new_empty_rom EXCEPT !.ctrl = 128,
                                                    !.scanline = 240,
                                                    !.cycles = 339],
                  cycles |-> 27393, cartridge |-> NoCartridge]
    /\ ppu_advanced = 82182
    /\ bus_ops = 1
    /\ bus_hist = [prev |-> [kind |-> "new", addr |-> 0, data |-> 0,
                             value |-> 0, port |-> "none", fault |-> "none"],
                   frames |-> 0, callbacks |-> 0, delivered |-> 0,
                   ctrl_rewritten |-> FALSE, joy |-> JoypadIdle]
    /\ register_a = 0
    /\ register_x = 0
    /\ register_y = 0
    /\ status = 0
    /\ stack_pointer = 0
    /\ program_counter = 0
    /\ memory = EmptyMem
    /\ cpu_mode = "idle"
    /\ cpu_prev = [op |-> "new", opcode |-> 0, instruction |-> "none",
                   mode |-> "none", bytes |-> 0, operand |-> 0,
                   before |-> [a |-> 0, x |-> 0, y |-> 0, p |-> 0, sp |-> 0,
                               pc |-> 0, mem |-> EmptyMem, fault |-> "none"]]
    /\ shadow = << >>
    /\ pulled = NoPull
    /\ cpu_pokes = 0
    /\ render = RenderIdle
    /\ traced = NoTrace
    /\ ipc = IpcIdle

SystemSpec == SystemInit /\ [][Next]_vars

\* ---- one instruction on every byte value: ExecSpec
\*
\* The runs start where a test is after load(), its mem_write calls, the
\* assignment of the registers and the entry of run(): the program is one
\* instruction of the table followed by BRK, every register holds the byte v,
\* and the byte the instruction works on is ExecValue(v), so that both run
\* over all 256 values; the flags are all clear, or all set but Break and
\* bit 5 (0xCF, what PLP leaves of a pulled 0xFF).

Byte == 0..255

ExecValue(v) == (v * 7 + 3) % 256

\* the zero-page operand bytes: 0x10, and for the modes that add an index
\* or follow a pointer also 0x1C and 0xFF
ExecBases(mode) ==
    IF mode \in {"ZeroPageX", "ZeroPageY", "IndirectX", "IndirectY"}
    THEN {16, 28, 255} ELSE {16}

\* the program: immediate operands carry the operand value, the other
\* modes name zero-page cell b or address 0x0010
ExecProgram(op, b, v) ==
    IF OPCODES[op].addressing_mode = "Immediate" THEN <<op, ExecValue(v)>>
    ELSE IF OPCODES[op].bytes = 2 THEN <<op, b>>
    ELSE Encode(op, <<16, 0>>)

\* the one-instruction programs, PHA; LDA #m; PHA; PLA; PLA, which pulls two
\* pushed bytes, and the pairs ROL A; ROR A and ROR A; ROL A
ExecPrograms(v) ==
    UNION {{ExecProgram(op, b, v) : b \in ExecBases(OPCODES[op].addressing_mode)} :
              op \in DOMAIN OPCODES}
        \cup {<<72, 169, ExecValue(v), 72, 104, 104>>}
        \cup {<<42, 106>>, <<106, 42>>}

\* the cells written with mem_write before the run, for the instruction of
\* mode `mode` with operand byte b: the operand value where the 6502 looks
\* for it with X = Y = v, and for the indirect modes the pointer (to 0x1234
\* for (zp,X), to 0x02F0 for (zp),Y); for the implicit mode, the cell a pull
\* reads with S = v
ExecCells(mode, b, v) ==
    CASE mode \in {"ZeroPage", "Absolute"} -> << <<16, ExecValue(v)>> >>
      [] mode \in {"ZeroPageX", "ZeroPageY"} ->
            << <<(b + v) % 256, ExecValue(v)>> >>
      [] mode \in {"AbsoluteX", "AbsoluteY"} -> << <<16 + v, ExecValue(v)>> >>
      [] mode = "IndirectX" ->
            << <<4660, ExecValue(v)>>, <<(b + v) % 256, 52>>,
               <<(b + v + 1) % 256, 18>> >>
      [] mode = "IndirectY" ->
            << <<752 + v, ExecValue(v)>>, <<b, 240>>, <<(b + 1) % 256, 2>> >>
      [] mode = "Implicit" -> << <<256 + ((v + 1) % 256), ExecValue(v)>> >>
      [] OTHER -> << >>

\* cpu.mem_write for each cell of the sequence
RECURSIVE mem_write_all(_, _)
mem_write_all(mem, cells) ==
    IF cells = << >> THEN mem
    ELSE mem_write_all(Put(mem, Head(cells)[1], Head(cells)[2]), Tail(cells))

ExecInit ==
    /\ cartridge = NoCartridge
    /\ cpu_vram = EmptyMem
    /\ ppu = bus_new_ppu(NoCartridge)
    /\ cycles = 0
    /\ bus_mode = "ok"
    /\ bus_last = [kind |-> "new", addr |-> 0, data |-> 0, value |-> 0,
                   port |-> "none", fault |-> "none"]
    /\ bus_pre = [cpu_vram |-> EmptyMem, ppu |-> bus_new_ppu(NoCartridge),
                  cycles |-> 0, cartridge |-> NoCartridge]
    /\ ppu_advanced = 0
    /\ bus_ops = 0
    /\ bus_hist = [prev |-> bus_last, frames |-> 0, callbacks |-> 0,
                   delivered |-> 0, ctrl_rewritten |-> FALSE, joy |-> JoypadIdle]
    /\ \E v \in Byte, flags \in {0, 207} : \E program \in ExecPrograms(v) :
          /\ register_a = v
          /\ register_x = v
          /\ register_y = v
          /\ status = flags
          /\ stack_pointer = v
          /\ program_counter = 32768
          /\ memory = mem_write_all(load([mem |-> EmptyMem, fault |-> "none"],
                                         program).mem,
                                    ExecCells(OPCODES[program[1]].addressing_mode,
                                              IF Len(program) > 1 THEN program[2]
                                              ELSE 0,
                                              v))
    /\ cpu_mode = "running"
    /\ cpu_prev = [op |-> "run", opcode |-> 0, instruction |-> "none",
                   mode |-> "none", bytes |-> 0, operand |-> 0,
                   before |-> [a |-> register_a, x |-> register_x,
                               y |-> register_y, p |-> status,
                               sp |-> stack_pointer, pc |-> program_counter,
                               mem |-> memory, fault |-> "none"]]
    /\ shadow = << >>
    /\ pulled = NoPull
    /\ cpu_pokes = 0
    /\ render = RenderIdle
    /\ traced = NoTrace
    /\ ipc = IpcIdle

ExecSpec == ExecInit /\ [][CpuStep]_vars

(***************************************************************************)
(* Claims about the bus, checked under BusSpec                             *)
(***************************************************************************)

\* what a read of `a` returns in the current state
BusReadNow(a) == bus_mem_read(cpu_vram, cartridge, ppu, a)

\* what a read of `a` returned in the state the last operation started from
BusReadBefore(a) == bus_mem_read(bus_pre.cpu_vram, cartridge, bus_pre.ppu, a)

\* RAM addresses probed: six cells of the 2 KiB, each at its four aliases
RamProbe == { c + k * 2048 : c \in {0, 1, 2, 1024, 2046, 2047}, k \in 0..3 }

\* C1: RAM mirroring.  In every reachable state a read of any address a below
\* 0x2000 returns what a read of a & 0x07FF returns; after a write of d to an
\* address in that range all four aliases of the written cell read d, and
\* every other cell reads what it read before the write.
C1_RamMirror ==
    /\ \A a \in RamProbe :
          /\ BusReadNow(a).fault = "none"
          /\ BusReadNow(a).value = BusReadNow(BitAnd(a, 2047)).value
    /\ (bus_last.kind = "write" /\ bus_last.addr < 8192) =>
          /\ bus_last.fault = "none"
          /\ \A k \in 0..3 :
                BusReadNow((bus_last.addr % 2048) + k * 2048).value = bus_last.data
          /\ \A a \in RamProbe :
                (a % 2048 # bus_last.addr % 2048) =>
                    BusReadNow(a).value = BusReadBefore(a).value

\* C1 witness: a write through the last mirror (0x1FFF) is read back at the
\* base cell 0x07FF and at the alias 0x0FFF.
C1_Witness ==
    /\ bus_last.kind = "write"
    /\ bus_last.addr = 8191
    /\ bus_last.data = 128
    /\ BusReadNow(2047).value = 128
    /\ BusReadNow(4095).value = 128
    /\ BusReadNow(1).value = 170

\* the PPU entry point that serves register k of the window, for a read
ReadPortOf(k) ==
    CASE k = 2 -> "read_status"
      [] k = 4 -> "read_oam_data"
      [] k = 7 -> "read_data"
      [] OTHER -> "write_only"

\* the PPU entry point that serves register k of the window, for a write
WritePortOf(k) ==
    CASE k = 0 -> "write_to_ctrl"
      [] k = 1 -> "write_to_mask"
      [] k = 2 -> "status"
      [] k = 3 -> "write_to_oam_addr"
      [] k = 4 -> "write_to_oam_data"
      [] k = 5 -> "write_to_scroll"
      [] k = 6 -> "write_to_ppu_addr_reg"
      [] OTHER -> "write_to_data"

\* C2: PPU register mirroring.  A read of an address a in [0x2008, 0x4000)
\* returns the value, leaves the PPU state and meets the fate of a read of
\* 0x2000 + (a & 7) from the same state, the readable ports 0x2002, 0x2004 and
\* 0x2007 being served by read_status, read_oam_data and read_data; a write to
\* a reaches the PPU entry point of register a & 7 and leaves the state a
\* write to 0x2000 + (a & 7) leaves.
C2_PpuRegisterMirror ==
    LET a == bus_last.addr
        k == a % 8
    IN  (a >= 8200 /\ a < 16384) =>
          /\ bus_last.kind = "read" =>
                LET d == BusReadBefore(8192 + k)
                IN  /\ bus_last.port = ReadPortOf(k)
                    /\ bus_last.fault = d.fault
                    /\ bus_last.value = d.value
                    /\ k \in {2, 4, 7} => (bus_last.fault = "none" /\ ppu = d.ppu)
          /\ bus_last.kind = "write" =>
                LET d == bus_mem_write(bus_pre.cpu_vram, bus_pre.ppu, 8192 + k,
                                       bus_last.data)
                IN  /\ bus_last.port = WritePortOf(k)
                    /\ bus_last.fault = d.fault
                    /\ d.fault = "none" => (ppu = d.ppu /\ cpu_vram = d.cpu_vram)

\* C2 witness: OAM data written through 0x3FFC is read back through 0x2ABC.
C2_Witness ==
    /\ bus_last.kind = "read"
    /\ bus_last.addr = 10940
    /\ bus_last.port = "read_oam_data"
    /\ bus_last.value = 119

\* PRG-ROM addresses probed
PrgProbe == {32768, 32769, 49151, 49152, 49153, 65534, 65535}

\* C3: PRG-ROM mapping.  With a cartridge, a read of a in [0x8000, 0xFFFF]
\* returns prg_rom[a - 0x8000] when the PRG-ROM is 32 KiB and
\* prg_rom[(a - 0x8000) mod 0x4000] when it is 16 KiB, so that the upper 16 KiB
\* repeat the lower ones; the index is always inside the PRG-ROM.
C3_PrgRomMapping ==
    /\ (bus_last.kind = "read" /\ bus_last.addr >= 32768 /\ cartridge.present) =>
          /\ bus_last.fault = "none"
          /\ bus_last.value =
                IF cartridge.prg_len = 32768
                THEN PrgByte(cartridge, bus_last.addr - 32768)
                ELSE PrgByte(cartridge, (bus_last.addr - 32768) % 16384)
    /\ cartridge.present =>
          \A a \in PrgProbe :
             /\ read_prg_rom(cartridge, a).index >= 0
             /\ read_prg_rom(cartridge, a).index < cartridge.prg_len
             /\ BusReadNow(a).fault = "none"
             /\ (cartridge.prg_len = 16384 /\ a >= 49152) =>
                    BusReadNow(a).value = BusReadNow(a - 16384).value

\* C3 witness: a read of 0xC000 from a 16 KiB cartridge returns prg_rom[0].
C3_Witness ==
    /\ bus_last.kind = "read"
    /\ bus_last.addr = 49152
    /\ cartridge.present
    /\ cartridge.prg_len = 16384
    /\ bus_last.value = PrgByte(cartridge, 0)
    /\ bus_last.value # 0

\* C4: tick ratio.  Every tick(n), n in 0..255, adds n to the cycle counter
\* and advances the PPU by 3 * n cycles, so the PPU has always been advanced
\* by three times the cycle counter.
C4_TickRatio ==
    /\ ppu_advanced = 3 * cycles
    /\ bus_last.kind = "tick" =>
          /\ bus_last.fault = "none"
          /\ cycles = bus_pre.cycles + bus_last.data
          /\ bus_last.value = 3 * bus_last.data

(***************************************************************************)
(* Claims about the CPU                                                    *)
(***************************************************************************)

\* the last operation was one iteration of run() that decoded `instruction`
Ran(instruction) ==
    cpu_prev.op = "step" /\ cpu_prev.instruction = instruction

\* the byte length the 6502 gives an instruction of the addressing mode
ModeLength(mode) ==
    CASE mode = "Implicit" -> 1
      [] mode \in {"Immediate", "ZeroPage", "ZeroPageX", "ZeroPageY",
                   "IndirectX", "IndirectY"} -> 2
      [] mode \in {"Absolute", "AbsoluteX", "AbsoluteY"} -> 3

\* official opcodes the programs hold that OPCODES does not hold, with their
\* lengths: CLC, CMP #imm, NOP
OfficialAbsent == (24 :> 1) @@ (201 :> 2) @@ (234 :> 1)

\* the official opcodes executed here that neither branch, jump nor break
Sequential(opcode) ==
    \/ opcode \in DOMAIN OfficialAbsent
    \/ opcode \in DOMAIN OPCODES /\ OPCODES[opcode].instruction # "BRK"

OfficialLength(opcode) ==
    IF opcode \in DOMAIN OfficialAbsent THEN OfficialAbsent[opcode]
    ELSE ModeLength(OPCODES[opcode].addressing_mode)

\* C5: PC advance.  After the execution of any official opcode that is not a
\* taken branch, JMP, JSR, RTS, RTI or BRK, the run goes on and PC is the PC
\* before plus the byte length of the instruction: 1 for implicit and
\* accumulator, 2 for immediate, zero-page, zero-page-indexed and
\* indirect-indexed, 3 for absolute and absolute-indexed.
C5_PcAdvance ==
    (cpu_prev.op = "step" /\ Sequential(cpu_prev.opcode)) =>
        /\ cpu_mode = "running"
        /\ program_counter = cpu_prev.before.pc + OfficialLength(cpu_prev.opcode)

\* C6: ADC.  After ADC with accumulator A, operand M and carry-in C, the
\* accumulator is (A + M + C) mod 256, Carry says A + M + C > 255, Overflow
\* says ((A ^ result) & (M ^ result) & 0x80) # 0, Zero says the result is 0
\* and Negative is bit 7 of the result.
C6_Adc ==
    Ran("ADC") =>
        LET A == cpu_prev.before.a
            M == cpu_prev.operand
            C == IF flag_contains(cpu_prev.before.p, CARRY) THEN 1 ELSE 0
            result == (A + M + C) % 256
        IN  /\ cpu_mode = "running"
            /\ register_a = result
            /\ flag_contains(status, CARRY) <=> (A + M + C > 255)
            /\ flag_contains(status, OVERFLOW) <=>
                   (BitAnd(BitAnd(BitXor(A, result), BitXor(M, result)), 128) # 0)
            /\ flag_contains(status, ZERO) <=> (result = 0)
            /\ flag_contains(status, NEGATIVE) <=> (BitAnd(result, 128) # 0)

\* C7: PHP followed immediately by PLP is the identity on P except for bits
\* 4 and 5: bits 0-3, 6 and 7 are as before PHP, bit 4 is 0, bit 5 is 1, and
\* the stack pointer is back at its value before PHP.
C7_PhpPlp ==
    (Ran("PLP") /\ pulled.entry.kind = "P" /\ pulled.entry.fresh) =>
        /\ BitAnd(status, 207) = BitAnd(pulled.entry.val, 207)
        /\ ~flag_contains(status, BREAK)
        /\ flag_contains(status, BIT5)
        /\ stack_pointer = pulled.entry.sp

\* C8: PHA followed by PLA, with instructions in between that leave the stack
\* balanced, restores the accumulator to the pushed value, sets Zero iff that
\* value is 0 and Negative iff its bit 7 is set, and returns the stack
\* pointer to its value before PHA.
C8_PhaPla ==
    (Ran("PLA") /\ pulled.entry.kind = "A" /\ pulled.balanced) =>
        /\ cpu_mode = "running"
        /\ register_a = pulled.entry.val
        /\ flag_contains(status, ZERO) <=> (pulled.entry.val = 0)
        /\ flag_contains(status, NEGATIVE) <=> (pulled.entry.val >= 128)
        /\ stack_pointer = pulled.entry.sp

\* C8 witness: a PLA restores 0x80 pushed by a PHA that was not the previous
\* instruction, after the accumulator held something else.
C8_Witness ==
    /\ Ran("PLA")
    /\ pulled.entry.kind = "A"
    /\ pulled.balanced
    /\ ~pulled.entry.fresh
    /\ pulled.entry.val = 128
    /\ cpu_prev.before.a # 128
    /\ register_a = 128
    /\ flag_contains(status, NEGATIVE)

\* the little-endian 16-bit value at addr and addr + 1 of the memory mem
LittleEndian16(mem, addr) == Get(mem, addr) + 256 * Get(mem, addr + 1)

\* C9 as stated: reset() sets PC to the little-endian 16-bit value at
\* 0xFFFC/0xFFFD, sets S to 0xFD and leaves the Interrupt-disable flag set.
C9_Reset_Stated ==
    cpu_prev.op = "reset" =>
        /\ program_counter = LittleEndian16(cpu_prev.before.mem, 65532)
        /\ stack_pointer = 253
        /\ flag_contains(status, INTERRUPT)

\* C9: reset() sets PC to the little-endian 16-bit value at 0xFFFC/0xFFFD,
\* sets S to 0xFF, clears the status register, so that the Interrupt-disable
\* flag is clear, clears A, X and Y, and leaves memory alone.
C9_Reset ==
    cpu_prev.op = "reset" =>
        /\ program_counter = LittleEndian16(cpu_prev.before.mem, 65532)
        /\ stack_pointer = 255
        /\ status = 0
        /\ register_a = 0 /\ register_x = 0 /\ register_y = 0
        /\ memory = cpu_prev.before.mem
        /\ cpu_mode = "reset"

\* C9 witness: a reset of a CPU whose Interrupt-disable flag was set and whose
\* stack pointer was 0x01, with the vector rewritten to 0x8002.
C9_Witness ==
    /\ cpu_prev.op = "reset"
    /\ flag_contains(cpu_prev.before.p, INTERRUPT)
    /\ cpu_prev.before.sp = 1
    /\ Get(memory, 65532) = 2
    /\ Get(memory, 65533) = 128
    /\ program_counter = 32770
    /\ stack_pointer = 255
    /\ status = 0

OfficialOpcodes ==
    {0, 1, 5, 6, 8, 9, 10, 13, 14, 16, 17, 21, 22, 24,
      25, 29, 30, 32, 33, 36, 37, 38, 40, 41, 42, 44, 45, 46,
      48, 49, 53, 54, 56, 57, 61, 62, 64, 65, 69, 70, 72, 73,
      74, 76, 77, 78, 80, 81, 85, 86, 88, 89, 93, 94, 96, 97,
      101, 102, 104, 105, 106, 108, 109, 110, 112, 113, 117, 118, 120, 121,
      125, 126, 129, 132, 133, 134, 136, 138, 140, 141, 142, 144, 145, 148,
      149, 150, 152, 153, 154, 157, 160, 161, 162, 164, 165, 166, 168, 169,
      170, 172, 173, 174, 176, 177, 180, 181, 182, 184, 185, 186, 188, 189,
      190, 192, 193, 196, 197, 198, 200, 201, 202, 204, 205, 206, 208, 209,
      213, 214, 216, 217, 221, 222, 224, 225, 228, 229, 230, 232, 233, 234,
      236, 237, 238, 240, 241, 245, 246, 248, 249, 253, 254 }

\* C11: opcode coverage.  Every official 6502 opcode has an entry in the
\* opcode table, so the fetch of an official opcode never ends in the
\* illegal-opcode error.
C11_OpcodeCoverage ==
    (cpu_prev.op = "step" /\ cpu_prev.opcode \in OfficialOpcodes) =>
        /\ cpu_prev.opcode \in DOMAIN OPCODES
        /\ cpu_mode # "illegal_instruction"

\* the byte the last iteration of run() fetched
FetchedByte == Get(cpu_prev.before.mem, cpu_prev.before.pc)

\* C12: the fetch of a byte that is not in the opcode table is fatal: the run
\* stops at that instruction, the failing step changes no register other than
\* PC, no flag and no memory cell, and the offending byte is reported.
C12_IllegalOpcode ==
    (/\ cpu_prev.op = "step"
     /\ mem_read_ok(cpu_prev.before.pc)
     /\ FetchedByte \notin DOMAIN OPCODES) =>
        /\ cpu_mode = "illegal_instruction"
        /\ ~ENABLED CpuStep
        /\ cpu_prev.opcode = FetchedByte
        /\ register_a = cpu_prev.before.a
        /\ register_x = cpu_prev.before.x
        /\ register_y = cpu_prev.before.y
        /\ status = cpu_prev.before.p
        /\ stack_pointer = cpu_prev.before.sp
        /\ memory = cpu_prev.before.mem
        /\ program_counter = cpu_prev.before.pc + 1

\* C12 witness: NOP is fetched after LDA #$42 loaded the accumulator and the
\* run ends there with the accumulator kept.
C12_Witness ==
    /\ cpu_prev.op = "step"
    /\ FetchedByte = 234
    /\ cpu_mode = "illegal_instruction"
    /\ cpu_prev.opcode = 234
    /\ cpu_prev.before.pc = 32770
    /\ register_a = 66
    /\ program_counter = 32771

\* the immediate compares the programs hold, with the register each compares
CompareRegister(c) ==
    CASE FetchedByte = 201 -> c.a
      [] FetchedByte = 224 -> c.x
      [] FetchedByte = 192 -> c.y

\* C20: compare.  CMP/CPX/CPY with register R and operand M set Carry iff
\* R >= M, Zero iff R = M, Negative to bit 7 of (R - M) mod 256, and leave A,
\* X, Y, memory and the other flags unchanged.
C20_Compare ==
    (cpu_prev.op = "step" /\ FetchedByte \in {201, 224, 192}) =>
        LET R == CompareRegister(cpu_prev.before)
            M == Get(cpu_prev.before.mem, cpu_prev.before.pc + 1)
        IN  /\ cpu_mode = "running"
            /\ flag_contains(status, CARRY) <=> (R >= M)
            /\ flag_contains(status, ZERO) <=> (R = M)
            /\ flag_contains(status, NEGATIVE) <=> (((R - M + 256) % 256) >= 128)
            /\ BitAnd(status, 124) = BitAnd(cpu_prev.before.p, 124)
            /\ register_a = cpu_prev.before.a
            /\ register_x = cpu_prev.before.x
            /\ register_y = cpu_prev.before.y
            /\ memory = cpu_prev.before.mem

(***************************************************************************)
(* Claims about the faults of the bus                                      *)
(***************************************************************************)

\* C13: write to cartridge ROM space.  A write to an address in
\* [0x8000, 0xFFFF] is fatal: the bus stops with the ROM-write fault, and RAM,
\* the cartridge with its PRG-ROM, the PPU state and the cycle counter are
\* what they were before the write.
C13_RomWrite ==
    (bus_last.kind = "write" /\ bus_last.addr >= 32768 /\ bus_last.addr <= 65535) =>
        /\ bus_mode = "write_rom"
        /\ bus_last.fault = "write_rom"
        /\ ~ENABLED BusNext
        /\ cpu_vram = bus_pre.cpu_vram
        /\ cartridge = bus_pre.cartridge
        /\ \A a \in PrgProbe : BusReadNow(a).value = BusReadBefore(a).value
        /\ ppu = bus_pre.ppu
        /\ cycles = bus_pre.cycles

\* C13 witness: with a cartridge inserted and RAM written, a write of 0xFF to
\* 0xFFFF has stopped the bus.
C13_Witness ==
    /\ bus_last.kind = "write"
    /\ bus_last.addr = 65535
    /\ bus_last.data = 255
    /\ bus_mode = "write_rom"
    /\ cartridge.present
    /\ Get(cpu_vram, 2047) = 128

\* the registers of the PPU window that cannot be read
WriteOnlyRegisters == {0, 1, 3, 5, 6}

\* the address is a write-only port, or a mirror of one in [0x2008, 0x3FFF]
IsWriteOnlyPort(a) ==
    \/ a = 16404
    \/ a >= 8192 /\ a <= 16383 /\ (a - 8192) % 8 \in WriteOnlyRegisters

\* C14: read of a write-only register.  A read of 0x2000, 0x2001, 0x2003,
\* 0x2005, 0x2006 or 0x4014, directly or through a mirror in [0x2008, 0x3FFF],
\* is fatal: the bus stops with the write-only fault, no value is returned,
\* and the PPU state, RAM and the cycle counter are what they were before.
C14_WriteOnlyRead ==
    (bus_last.kind = "read" /\ IsWriteOnlyPort(bus_last.addr)) =>
        /\ bus_mode = "read_write_only"
        /\ bus_last.fault = "read_write_only"
        /\ bus_last.port = "write_only"
        /\ ~ENABLED BusNext
        /\ ppu = bus_pre.ppu
        /\ cpu_vram = bus_pre.cpu_vram
        /\ cycles = bus_pre.cycles

\* C14 witness: after the address latch took one byte, a read of 0x3FFE, a
\* mirror of 0x2006, has stopped the bus and left the latch as it was.
C14_Witness ==
    /\ bus_last.kind = "read"
    /\ bus_last.addr = 16382
    /\ bus_mode = "read_write_only"
    /\ ppu.address_register.hi = 63
    /\ ~ppu.address_register.hi_ptr

(***************************************************************************)
(* Claims about the NMI and the frame                                      *)
(***************************************************************************)

\* C15: poll_nmi_status consumes the pending NMI.  A poll returns the NMI
\* that was pending, if any, and leaves none pending and the rest of the PPU
\* as it was; a poll that immediately follows a poll returns none; a poll
\* never creates a pending NMI.
C15_PollConsumes ==
    bus_last.kind = "poll" =>
        /\ (bus_last.port = "some") = bus_pre.ppu.nmi_interrupt.some
        /\ ~ppu.nmi_interrupt.some
        /\ ppu = [bus_pre.ppu EXCEPT !.nmi_interrupt = NoNmi]
        /\ bus_hist.prev.kind = "poll" => bus_last.port = "none"

\* C15 witness: a poll returned the pending NMI and the poll right after it
\* returned none.
C15_Witness ==
    /\ bus_last.kind = "poll"
    /\ bus_last.port = "none"
    /\ bus_hist.prev.kind = "poll"
    /\ bus_hist.prev.port = "some"
    /\ ppu.scanline = 241

\* the NMIs of the current frame: those polled and the one pending
NmisOfFrame == bus_hist.delivered + (IF ppu.nmi_interrupt.some THEN 1 ELSE 0)

C18_FrameCallback == bus_hist.callbacks = bus_hist.frames

(***************************************************************************)
(* Claims about the PPU registers                                          *)
(***************************************************************************)

\* the last operation read Status, at 0x2002 or through a mirror
StatusRead(op) ==
    /\ op.kind = "read"
    /\ op.addr >= 8192 /\ op.addr <= 16383 /\ op.addr % 8 = 2

\* the last operation wrote Address, at 0x2006 or through a mirror
AddressWrite(op) ==
    /\ op.kind = "write"
    /\ op.addr >= 8192 /\ op.addr <= 16383 /\ op.addr % 8 = 6

\* C19: status read.  A read of 0x2002 returns the Status byte, clears its
\* bit 7, leaves its other bits and the rest of the PPU, and resets the
\* latch shared by Scroll and Address; the write to 0x2006 that comes right
\* after it is taken as the high byte (its low six bits), whatever writes
\* to 0x2005 and 0x2006 came before the read.
C19_StatusRead ==
    /\ StatusRead(bus_last) =>
          /\ bus_last.fault = "none"
          /\ bus_last.value = bus_pre.ppu.status
          /\ ppu.status = bus_pre.ppu.status % 128
          /\ ppu.address_register.hi_ptr
          /\ ppu = [bus_pre.ppu EXCEPT !.status = @ % 128,
                                       !.address_register.hi_ptr = TRUE]
    /\ (AddressWrite(bus_last) /\ StatusRead(bus_hist.prev)) =>
          /\ bus_last.fault = "none"
          /\ ppu.address_register.hi = bus_last.data % 64
          /\ ppu.address_register.lo = bus_pre.ppu.address_register.lo
          /\ ~ppu.address_register.hi_ptr

\* C19 witness: in vertical blank, after one write to 0x2006 left the latch
\* on the low byte, a read of Status returned bit 7 set and the write of 0x21
\* through 0x3FFE became the high byte.
C19_Witness ==
    /\ AddressWrite(bus_last)
    /\ bus_last.data = 33
    /\ StatusRead(bus_hist.prev)
    /\ bus_hist.prev.value = 128
    /\ bus_pre.ppu.address_register.hi = 63
    /\ bus_pre.ppu.status = 0
    /\ ppu.address_register.hi = 33
    /\ ppu.address_register.lo = 0

(***************************************************************************)
(* Claims about the CPU beside the bus                                     *)
(***************************************************************************)

\* C17: NMI ordering.  An NMI raised by the tick that ended the previous
\* instruction is serviced at the start of the next one: a step of the CPU
\* that begins with an NMI pending on the bus takes it, so that none is
\* pending when the step ends.
C17_NmiOrdering ==
    [][(cpu_mode = "running" /\ cpu_prev'.op = "step" /\ ppu.nmi_interrupt.some)
          => ~ppu'.nmi_interrupt.some]_vars

(***************************************************************************)
(* Claims about single instructions, over every byte value                 *)
(***************************************************************************)

\* the operand bytes of the instruction the last step ran
OperandByte1 == Get(cpu_prev.before.mem, cpu_prev.before.pc + 1)

OperandByte2 == Get(cpu_prev.before.mem, cpu_prev.before.pc + 2)

\* the byte of page zero at p, and the 16-bit pointer held at p and at its
\* successor inside page zero
ZeroPageByte(p) == Get(cpu_prev.before.mem, p % 256)

ZeroPagePointer(p) == ZeroPageByte(p) + 256 * ZeroPageByte(p + 1)

\* the effective address the 6502 gives the last step's instruction
EffectiveAddress ==
    CASE cpu_prev.mode = "Immediate" -> cpu_prev.before.pc + 1
      [] cpu_prev.mode = "ZeroPage" -> OperandByte1
      [] cpu_prev.mode = "ZeroPageX" -> (OperandByte1 + cpu_prev.before.x) % 256
      [] cpu_prev.mode = "ZeroPageY" -> (OperandByte1 + cpu_prev.before.y) % 256
      [] cpu_prev.mode = "Absolute" -> OperandByte1 + 256 * OperandByte2
      [] cpu_prev.mode = "AbsoluteX" ->
            (OperandByte1 + 256 * OperandByte2 + cpu_prev.before.x) % 65536
      [] cpu_prev.mode = "AbsoluteY" ->
            (OperandByte1 + 256 * OperandByte2 + cpu_prev.before.y) % 65536
      [] cpu_prev.mode = "IndirectX" ->
            ZeroPagePointer(OperandByte1 + cpu_prev.before.x)
      [] cpu_prev.mode = "IndirectY" ->
            (ZeroPagePointer(OperandByte1) + cpu_prev.before.y) % 65536
      [] OTHER -> 0

\* the byte the instruction worked on
OperandBefore == Get(cpu_prev.before.mem, EffectiveAddress)

\* the result byte of the last step's instruction: the register or the
\* memory cell it wrote
ResultByte ==
    CASE cpu_prev.instruction \in {"LDA", "TXA", "TYA", "PLA", "AND", "EOR", "ORA"} ->
            register_a
      [] cpu_prev.instruction \in {"LDX", "TAX", "TSX", "INX", "DEX"} -> register_x
      [] cpu_prev.instruction \in {"LDY", "TAY", "INY", "DEY"} -> register_y
      [] OTHER -> Get(memory, EffectiveAddress)

ZnInstructions ==
    {"LDA", "LDX", "LDY", "TAX", "TAY", "TXA", "TYA", "TSX", "PLA", "INC", "INX",
     "INY", "DEC", "DEX", "DEY", "AND", "EOR", "ORA"}

\* C21: Zero/Negative rule.  After each of LDA, LDX, LDY, TAX, TAY, TXA, TYA,
\* TSX, PLA, INC, INX, INY, DEC, DEX, DEY, AND, EOR and ORA the run goes on,
\* Zero is set iff the result byte is 0, Negative is bit 7 of the result
\* byte, and Carry, Overflow, Decimal and Interrupt-disable are what they
\* were before the instruction.
C21_ZeroNegative ==
    (cpu_prev.op = "step" /\ cpu_prev.instruction \in ZnInstructions) =>
        /\ cpu_mode = "running"
        /\ flag_contains(status, ZERO) = (ResultByte = 0)
        /\ flag_contains(status, NEGATIVE) = (ResultByte >= 128)
        /\ BitAnd(status, CARRY + OVERFLOW + DECIMAL + INTERRUPT)
              = BitAnd(cpu_prev.before.p, CARRY + OVERFLOW + DECIMAL + INTERRUPT)

\* C21 witness: with the flags at 0xCF, INC $10,X took the cell from 0x7F to
\* 0x80: Negative stays set, Zero is cleared, the other flags stay set.
C21_Witness ==
    /\ Ran("INC")
    /\ cpu_prev.mode = "ZeroPageX"
    /\ OperandBefore = 127
    /\ ResultByte = 128
    /\ cpu_prev.before.p = 207
    /\ status = 205

ShiftInstructions == {"ASL", "LSR", "ROL", "ROR", "ASLA", "LSRA", "ROLA", "RORA"}

\* the byte a shift worked on: the accumulator, or the addressed cell
ShiftOperand ==
    IF cpu_prev.mode = "Implicit" THEN cpu_prev.before.a ELSE OperandBefore

CarryIn == cpu_prev.before.p % 2

\* the byte and the carry the 6502 gives the shift of v with carry-in c
ShiftResult(instruction, v, c) ==
    CASE instruction \in {"ASL", "ASLA"} -> [value |-> (v * 2) % 256, carry |-> v \div 128]
      [] instruction \in {"LSR", "LSRA"} -> [value |-> v \div 2, carry |-> v % 2]
      [] instruction \in {"ROL", "ROLA"} ->
            [value |-> ((v * 2) % 256) + c, carry |-> v \div 128]
      [] instruction \in {"ROR", "RORA"} ->
            [value |-> (v \div 2) + (128 * c), carry |-> v % 2]

StepInstructions == {"INC", "INX", "INY", "DEC", "DEX", "DEY"}

\* the byte an increment or decrement worked on
StepOperand ==
    CASE cpu_prev.instruction \in {"INX", "DEX"} -> cpu_prev.before.x
      [] cpu_prev.instruction \in {"INY", "DEY"} -> cpu_prev.before.y
      [] OTHER -> OperandBefore

\* C23: increment and decrement wrap.  INX, INY and INC yield the operand
\* plus one modulo 256 and DEX, DEY and DEC the operand minus one modulo 256,
\* and the run goes on: 0xFF is incremented to 0x00 with Zero set and
\* Negative clear, 0x00 is decremented to 0xFF with Negative set and Zero
\* clear, in a register as in memory.
C23_StepWrap ==
    (cpu_prev.op = "step" /\ cpu_prev.instruction \in StepInstructions) =>
        /\ cpu_mode = "running"
        /\ cpu_prev.instruction \in {"INC", "INX", "INY"} =>
              /\ ResultByte = (StepOperand + 1) % 256
              /\ StepOperand = 255 =>
                    (ResultByte = 0 /\ flag_contains(status, ZERO)
                        /\ ~flag_contains(status, NEGATIVE))
        /\ cpu_prev.instruction \in {"DEC", "DEX", "DEY"} =>
              /\ ResultByte = (StepOperand + 255) % 256
              /\ StepOperand = 0 =>
                    (ResultByte = 255 /\ flag_contains(status, NEGATIVE)
                        /\ ~flag_contains(status, ZERO))

\* C23 witness: DEC $0010,X took the cell from 0x00 to 0xFF with Negative
\* set, starting from clear flags.
C23_Witness ==
    /\ Ran("DEC")
    /\ cpu_prev.mode = "AbsoluteX"
    /\ OperandBefore = 0
    /\ Get(memory, EffectiveAddress) = 255
    /\ cpu_prev.before.p = 0
    /\ status = NEGATIVE

\* the stack cell at pointer value sp
StackCell(mem, sp) == Get(mem, 256 + sp)

\* C24: stack discipline.  PHA and PHP write the pushed byte (A, or P with
\* Break and bit 5 set) at 0x0100 + S, leave every other cell and decrement
\* S modulo 256; PLA and PLP increment S modulo 256, read 0x0100 + S and
\* leave memory, and the run goes on, also when S was 0xFF and the pull
\* reads 0x0100; a pull made with the stack balanced since the last
\* unconsumed push reads the byte that push wrote.
C24_StackDiscipline ==
    /\ (cpu_prev.op = "step" /\ cpu_prev.instruction \in {"PHA", "PHP"}) =>
          /\ cpu_mode = "running"
          /\ stack_pointer = (cpu_prev.before.sp + 255) % 256
          /\ StackCell(memory, cpu_prev.before.sp) =
                IF cpu_prev.instruction = "PHA" THEN cpu_prev.before.a
                ELSE BitOr(cpu_prev.before.p, BREAK + BIT5)
          /\ \A i \in DOMAIN memory \cup DOMAIN cpu_prev.before.mem :
                i # 256 + cpu_prev.before.sp =>
                    Get(memory, i) = Get(cpu_prev.before.mem, i)
    /\ (cpu_prev.op = "step" /\ cpu_prev.instruction \in {"PLA", "PLP"}) =>
          /\ cpu_mode = "running"
          /\ stack_pointer = (cpu_prev.before.sp + 1) % 256
          /\ memory = cpu_prev.before.mem
          /\ cpu_prev.instruction = "PLA" =>
                register_a = StackCell(memory, stack_pointer)
          /\ cpu_prev.instruction = "PLP" =>
                BitAnd(status, 255 - BREAK - BIT5) =
                    BitAnd(StackCell(memory, stack_pointer), 255 - BREAK - BIT5)
          /\ (pulled.entry.kind # "none" /\ pulled.balanced) =>
                StackCell(memory, stack_pointer) = pulled.entry.byte

\* C24 witness: PHA of 0x01 at S = 0x01, then PHA of 0x0A at S = 0x00 left
\* S = 0xFF; the PLA wrapped S to 0x00 and returned 0x0A, the byte pushed
\* last, read at 0x0100, while the byte pushed first is still on the stack.
C24_Witness ==
    /\ Ran("PLA")
    /\ cpu_prev.before.sp = 255
    /\ stack_pointer = 0
    /\ pulled.entry.kind = "A"
    /\ pulled.balanced
    /\ pulled.entry.byte = 10
    /\ register_a = 10
    /\ Len(shadow) = 1
    /\ shadow[1].byte = 1
    /\ cpu_mode = "running"

\* the address get_operand_address gave the last step's instruction
OperandAddress ==
    get_operand_address([cpu_prev.before EXCEPT !.pc = @ + 1], cpu_prev.mode).addr

\* C25: zero-page indexed addressing.  For every operand byte b and index
\* value r the effective address of ZeroPage,X and ZeroPage,Y is
\* (b + r) mod 256, never above 0x00FF, and the instruction works on the
\* byte of that cell.
C25_ZeroPageIndexed ==
    (cpu_prev.op = "step" /\ cpu_prev.mode \in {"ZeroPageX", "ZeroPageY"}) =>
        LET r == IF cpu_prev.mode = "ZeroPageX" THEN cpu_prev.before.x
                 ELSE cpu_prev.before.y
        IN  /\ OperandAddress = (OperandByte1 + r) % 256
            /\ OperandAddress <= 255
            /\ cpu_prev.operand = Get(cpu_prev.before.mem, (OperandByte1 + r) % 256)
            /\ Ran("LDA") => register_a = ExecValue(r)
            /\ Ran("LDX") => register_x = ExecValue(r)
            /\ Ran("STA") =>
                  Get(memory, (OperandByte1 + r) % 256) = cpu_prev.before.a
            /\ Ran("STX") =>
                  Get(memory, (OperandByte1 + r) % 256) = cpu_prev.before.x

\* C25 witness: LDA $FF,X with X = 0x02 loaded the byte of cell 0x01.
C25_Witness ==
    /\ Ran("LDA")
    /\ cpu_prev.mode = "ZeroPageX"
    /\ OperandByte1 = 255
    /\ cpu_prev.before.x = 2
    /\ OperandAddress = 1
    /\ register_a = Get(memory, 1)
    /\ register_a = 17

\* C26: (Indirect,X) addressing.  For every operand byte b and X the pointer
\* is p = (b + X) mod 256 and the effective address is
\* mem[p] | (mem[(p + 1) mod 256] << 8): both pointer bytes come from page
\* zero, also when p = 0xFF; the instruction works on the byte at that
\* address.
C26_IndirectX ==
    (cpu_prev.op = "step" /\ cpu_prev.mode = "IndirectX") =>
        LET p == (OperandByte1 + cpu_prev.before.x) % 256
            target == Get(cpu_prev.before.mem, p)
                        + 256 * Get(cpu_prev.before.mem, (p + 1) % 256)
        IN  /\ OperandAddress = target
            /\ cpu_prev.operand = Get(cpu_prev.before.mem, target)
            /\ Ran("LDA") =>
                  (register_a = Get(cpu_prev.before.mem, target)
                      /\ register_a = ExecValue(cpu_prev.before.x))
            /\ Ran("STA") => Get(memory, target) = cpu_prev.before.a

\* C26 witness: with mem[0x20] = 0x34, mem[0x21] = 0x12 and X = 4,
\* LDA ($1C,X) loaded the byte at 0x1234.
C26_Witness ==
    /\ Ran("LDA")
    /\ cpu_prev.mode = "IndirectX"
    /\ OperandByte1 = 28
    /\ cpu_prev.before.x = 4
    /\ Get(memory, 32) = 52
    /\ Get(memory, 33) = 18
    /\ OperandAddress = 4660
    /\ register_a = Get(memory, 4660)
    /\ register_a = 31

\* C26 witness of the wrap: with the pointer at 0xFF, its high byte came
\* from cell 0x00 and LDA ($FF,X) with X = 0 loaded the byte at 0x1234.
C26_WrapWitness ==
    /\ Ran("LDA")
    /\ cpu_prev.mode = "IndirectX"
    /\ OperandByte1 = 255
    /\ cpu_prev.before.x = 0
    /\ Get(memory, 255) = 52
    /\ Get(memory, 0) = 18
    /\ OperandAddress = 4660
    /\ register_a = ExecValue(0)

\* ---- the controller port: a bus whose player holds some buttons, and a
\* program that strobes 0x4016 and reads it

\* the buttons held: none, A, B, A and Right, Right, all but A, all
HeldButtons == {0, 1, 2, 129, 128, 254, 255}

JoypadInit ==
    /\ cartridge \in {NoCartridge} \cup Cartridges
    /\ cpu_vram = EmptyMem
    /\ ppu = bus_new_ppu(cartridge)
    /\ cycles = 0
    /\ bus_mode = "ok"
    /\ bus_last = [kind |-> "new", addr |-> 0, data |-> 0, value |-> 0,
                   port |-> "none", fault |-> "none"]
    /\ bus_pre = [cpu_vram |-> EmptyMem, ppu |-> ppu, cycles |-> 0,
                  cartridge |-> cartridge]
    /\ ppu_advanced = 0
    /\ bus_ops = 0
    /\ \E held \in HeldButtons :
          bus_hist = [prev |-> bus_last, frames |-> 0, callbacks |-> 0,
                      delivered |-> 0, ctrl_rewritten |-> FALSE,
                      joy |-> [buttons |-> held, strobe |-> 0, index |-> -1]]
    /\ register_a = 0
    /\ register_x = 0
    /\ register_y = 0
    /\ status = 0
    /\ stack_pointer = 0
    /\ program_counter = 0
    /\ memory = EmptyMem
    /\ cpu_mode = "idle"
    /\ cpu_pokes = 0
    /\ render = RenderIdle
    /\ traced = NoTrace
    /\ ipc = IpcIdle
    /\ cpu_prev = [op |-> "new", opcode |-> 0, instruction |-> "none",
                    mode |-> "none", bytes |-> 0, operand |-> 0,
                    before |-> [a |-> 0, x |-> 0, y |-> 0, p |-> 0, sp |-> 0,
                                pc |-> 0, mem |-> EmptyMem, fault |-> "none"]]
    /\ shadow = << >>
    /\ pulled = [entry |-> [kind |-> "none", sp |-> 0, val |-> 0, byte |-> 0,
                            fresh |-> FALSE, ok |-> FALSE],
                 balanced |-> FALSE]

JoypadNext ==
    \/ \E data \in {0, 1} : BusWrite(16406, data)
    \/ BusRead(16406)

JoypadSpec == JoypadInit /\ [][JoypadNext]_vars

\* bit k of the held buttons for k < 8, 1 once the eight are read
JoypadBit(buttons, k) == IF k < 8 THEN (buttons \div (2 ^ k)) % 2 ELSE 1

\* C27: after 0x4016 was written 1 and then 0, the k-th read of 0x4016
\* (k = 0, 1, ...) returns in bit 0 the state of button k in the order A, B,
\* Select, Start, Up, Down, Left, Right, and 1 from the ninth read on, until
\* the next strobe.
C27_JoypadSequence ==
    (bus_last.kind = "read" /\ bus_last.addr = 16406
        /\ bus_hist.joy.index >= 1)
    => bus_last.value % 2 =
           JoypadBit(bus_hist.joy.buttons, bus_hist.joy.index - 1)

\* ---- name tables: a bus with a cartridge, and a program that loads the
\* PPU address through 0x2006 and moves bytes through 0x2007

\* the bytes written to 0x2006: as high bytes the first and last page of
\* each name table, pattern memory, the palette page and a page above
\* 0x2FFF; as low bytes 0x00, 0xFF and bytes in between
MirrorAddrBytes == {32, 35, 36, 39, 40, 43, 44, 47, 0, 63, 255, 48}

MirrorDataBytes == {66, 129}

MirrorInit ==
    /\ cartridge \in Cartridges
    /\ cpu_vram = EmptyMem
    /\ ppu = bus_new_ppu(cartridge)
    /\ cycles = 0
    /\ bus_mode = "ok"
    /\ bus_last = [kind |-> "new", addr |-> 0, data |-> 0, value |-> 0,
                   port |-> "none", fault |-> "none"]
    /\ bus_pre = [cpu_vram |-> EmptyMem, ppu |-> ppu, cycles |-> 0,
                  cartridge |-> cartridge]
    /\ ppu_advanced = 0
    /\ bus_ops = 0
    /\ bus_hist = [prev |-> bus_last, frames |-> 0, callbacks |-> 0,
                   delivered |-> 0, ctrl_rewritten |-> FALSE, joy |-> JoypadIdle]
    /\ register_a = 0
    /\ register_x = 0
    /\ register_y = 0
    /\ status = 0
    /\ stack_pointer = 0
    /\ program_counter = 0
    /\ memory = EmptyMem
    /\ cpu_mode = "idle"
    /\ cpu_pokes = 0
    /\ render = RenderIdle
    /\ traced = NoTrace
    /\ ipc = IpcIdle
    /\ cpu_prev = [op |-> "new", opcode |-> 0, instruction |-> "none",
                    mode |-> "none", bytes |-> 0, operand |-> 0,
                    before |-> [a |-> 0, x |-> 0, y |-> 0, p |-> 0, sp |-> 0,
                                pc |-> 0, mem |-> EmptyMem, fault |-> "none"]]
    /\ shadow = << >>
    /\ pulled = [entry |-> [kind |-> "none", sp |-> 0, val |-> 0, byte |-> 0,
                            fresh |-> FALSE, ok |-> FALSE],
                 balanced |-> FALSE]

MirrorNext ==
    \/ \E b \in MirrorAddrBytes : BusWrite(8198, b)
    \/ \E d \in MirrorDataBytes : BusWrite(8199, d)
    \/ BusRead(8199)

MirrorSpec == MirrorInit /\ [][MirrorNext]_vars

\* the table m of the claim: logical name table -> physical name table
MirrorTable(mirroring, table) ==
    IF mirroring = "Horizontal" THEN <<0, 0, 1, 1>>[table + 1]
    ELSE <<0, 1, 0, 1>>[table + 1]

\* offset + 0x400 * m(table), index = (addr - 0x2000) mod 0x1000
NametablePhysical(mirroring, addr) ==
    LET index == (addr - 8192) % 4096
    IN  (index % 1024) + 1024 * MirrorTable(mirroring, index \div 1024)

\* the PPU address the last operation found in the address register
PpuAddrBefore ==
    bus_pre.ppu.address_register.hi * 256 + bus_pre.ppu.address_register.lo

\* C28: a byte written through 0x2007 with the PPU address in
\* [0x2000, 0x2FFF] lands in the VRAM cell offset + 0x400 * m(table) of the
\* cartridge's mirroring, that cell is inside the 2 KiB of VRAM, and no
\* other VRAM cell changes.
C28_NametableMirroring ==
    (bus_last.kind = "write" /\ bus_last.port = "write_to_data"
        /\ bus_last.fault = "none"
        /\ PpuAddrBefore >= 8192 /\ PpuAddrBefore <= 12287)
    => LET phys == NametablePhysical(cartridge.screen_mirroring, PpuAddrBefore)
       IN  /\ phys \in 0..2047
           /\ Get(ppu.vram, phys) = bus_last.data
           /\ \A i \in (DOMAIN ppu.vram \cup DOMAIN bus_pre.ppu.vram) \ {phys} :
                  Get(ppu.vram, i) = Get(bus_pre.ppu.vram, i)

\* a write at PPU address 0x27FF of a vertically mirrored cartridge lands
\* in cell 0x7FF, where horizontal mirroring has cell 0x3FF
C28_Witness ==
    /\ bus_last.kind = "write" /\ bus_last.port = "write_to_data"
    /\ cartridge.screen_mirroring = "Vertical"
    /\ PpuAddrBefore = 10239
    /\ Get(ppu.vram, 2047) = 129
    /\ Get(ppu.vram, 1023) = 0

\* a write at PPU address 0x2C00 of a horizontally mirrored cartridge lands
\* in cell 0x400
C28_HorizontalWitness ==
    /\ bus_last.kind = "write" /\ bus_last.port = "write_to_data"
    /\ cartridge.screen_mirroring = "Horizontal"
    /\ PpuAddrBefore = 11264
    /\ Get(ppu.vram, 1024) = 66

\* ---- rendering: a PPU whose OAM, palette and first name table a program
\* has filled, and one call of render(&ppu, &mut frame) on a new Frame

\* OAM: sprite 0 at (3, 2) with tile 1, sprite 1 at (5, 4) with tile 2,
\* sprite 63 at (1, 6) with tile 3 and palette 3; the sixty-one entries in
\* between are zero, so they are tile 0 at (0, 0) with palette 0
RenderOam(attr0, attr1) ==
    (0 :> 2) @@ (1 :> 1) @@ (2 :> attr0) @@ (3 :> 3) @@
    (4 :> 4) @@ (5 :> 2) @@ (6 :> attr1) @@ (7 :> 5) @@
    (252 :> 6) @@ (253 :> 3) @@ (254 :> 3) @@ (255 :> 1)

\* where sprite 2 stands: not in use (a zero entry), and across the frame's
\* bottom-right corner
RenderCorners == {<<0, 0, 0>>, <<252, 236, 1>>}

\* the OAM with sprite 2 at (corner[1], corner[2]) showing tile corner[3]
RenderOamWith(attr0, attr1, corner) ==
    IF corner[3] = 0 THEN RenderOam(attr0, attr1)
    ELSE (8 :> corner[2]) @@ (9 :> corner[3]) @@ (10 :> attr0) @@
         (11 :> corner[1]) @@ RenderOam(attr0, attr1)

\* palette RAM: entry i holds 16 + i, so every entry is another colour
RenderPalette == [i \in 0..31 |-> 16 + i]

\* name table 0: tiles 4..7 in the four top-left cells, attribute byte 0x02
RenderVram == (0 :> 4) @@ (1 :> 5) @@ (32 :> 6) @@ (33 :> 7) @@ (960 :> 2)

\* attributes of sprite 0 (palette 1, with each flip) and sprite 1 (palette 2)
RenderAttrs0 == {1, 65, 129, 193}

RenderAttrs1 == {2, 66}

RenderInit ==
    /\ cartridge \in Cartridges
    /\ cpu_vram = EmptyMem
    /\ \E ctrl \in {0, 8}, attr0 \in RenderAttrs0, attr1 \in RenderAttrs1,
          corner \in RenderCorners :
          \* the corner sprite is tried with each flip, one bank and one attr1
          /\ (corner[3] # 0 => (ctrl = 0 /\ attr1 = 2))
          /\ ppu = [bus_new_ppu(cartridge) EXCEPT
                     !.ctrl = ctrl,
                     !.oam_data = RenderOamWith(attr0, attr1, corner),
                     !.palette_table = RenderPalette,
                     !.vram = RenderVram]
    /\ cycles = 0
    /\ bus_mode = "ok"
    /\ bus_last = [kind |-> "new", addr |-> 0, data |-> 0, value |-> 0,
                   port |-> "none", fault |-> "none"]
    /\ bus_pre = [cpu_vram |-> EmptyMem, ppu |-> ppu, cycles |-> 0,
                  cartridge |-> cartridge]
    /\ ppu_advanced = 0
    /\ bus_ops = 0
    /\ bus_hist = [prev |-> bus_last, frames |-> 0, callbacks |-> 0,
                   delivered |-> 0, ctrl_rewritten |-> FALSE, joy |-> JoypadIdle]
    /\ register_a = 0
    /\ register_x = 0
    /\ register_y = 0
    /\ status = 0
    /\ stack_pointer = 0
    /\ program_counter = 0
    /\ memory = EmptyMem
    /\ cpu_mode = "idle"
    /\ cpu_pokes = 0
    /\ cpu_prev = [op |-> "new", opcode |-> 0, instruction |-> "none",
                    mode |-> "none", bytes |-> 0, operand |-> 0,
                    before |-> [a |-> 0, x |-> 0, y |-> 0, p |-> 0, sp |-> 0,
                                pc |-> 0, mem |-> EmptyMem, fault |-> "none"]]
    /\ shadow = << >>
    /\ pulled = [entry |-> [kind |-> "none", sp |-> 0, val |-> 0, byte |-> 0,
                            fresh |-> FALSE, ok |-> FALSE],
                 balanced |-> FALSE]
    /\ render = [stage |-> "called", k |-> 1, frame |-> frame_new,
                 bg_done |-> FALSE, order |-> << >>, far |-> [x |-> 0, y |-> 0]]
    /\ traced = NoTrace
    /\ ipc = IpcIdle

\* render: render_bg(ppu, frame)
RenderBg ==
    /\ render.stage = "called"
    /\ render' = [render EXCEPT !.stage = "sprites",
                                !.frame = render_bg(ppu, @),
                                !.bg_done = TRUE,
                                !.far = farthest(@, render_bg_calls)]
    /\ UNCHANGED <<bus_vars, cpu_vars, traced, ipc>>

\* render_sprites: one turn of the loop over the OAM entries
RenderSprite ==
    /\ render.stage = "sprites"
    /\ LET i == sprite_order[render.k]
       IN  render' = [render EXCEPT
                         !.frame = set_pixel(@, render_sprite_pixels(ppu, i)),
                         !.far = farthest(@, render_sprite_pixels(ppu, i)),
                         !.order = Append(@, i),
                         !.k = @ + 1,
                         !.stage = IF render.k = 64 THEN "done" ELSE "sprites"]
    /\ UNCHANGED <<bus_vars, cpu_vars, traced, ipc>>

RenderNext == RenderBg \/ RenderSprite

RenderSpec == RenderInit /\ [][RenderNext]_vars

\* colour index 0..3 of sprite s (0..63) at frame pixel (px, py); 0 also
\* where the sprite's 8 x 8 box does not reach
SpriteColourIndex(s, px, py) ==
    LET dx   == px - Get(ppu.oam_data, 4 * s + 3)
        dy   == py - Get(ppu.oam_data, 4 * s)
        attr == Get(ppu.oam_data, 4 * s + 2)
    IN  IF dx \notin 0..7 \/ dy \notin 0..7 THEN 0
        ELSE LET col  == IF BitAnd(attr, 64) # 0 THEN 7 - dx ELSE dx
                 row  == IF BitAnd(attr, 128) # 0 THEN 7 - dy ELSE dy
                 base == (IF BitAnd(ppu.ctrl, 8) # 0 THEN 4096 ELSE 0)
                             + 16 * Get(ppu.oam_data, 4 * s + 1) + row
                 bit  == 2 ^ (7 - col)
                 low  == IF BitAnd(ChrByte(ppu.chr_rom, base), bit) # 0
                         THEN 1 ELSE 0
                 high == IF BitAnd(ChrByte(ppu.chr_rom, base + 8), bit) # 0
                         THEN 2 ELSE 0
             IN  high + low

\* the colour sprite s shows where its colour index is c (1..3)
SpriteColour(s, c) ==
    Get(ppu.palette_table, 17 + 4 * (Get(ppu.oam_data, 4 * s + 2) % 4) + c - 1)

\* the sprites drawn so far
SpritesDrawn == {render.order[n] \div 4 : n \in 1..Len(render.order)}

\* the sprites drawn so far that are opaque at (px, py)
OpaqueAt(px, py) == {s \in SpritesDrawn : SpriteColourIndex(s, px, py) # 0}

LowestOf(S) == CHOOSE s \in S : \A t \in S : s <= t

\* what the pixel was before the sprites: the background once drawn
Beneath(px, py) == IF render.bg_done THEN bg_pixel(ppu, px, py) ELSE -1

\* the colour of sprite s at (px, py), where it is opaque
ColourOf(s, px, py) == SpriteColour(s, SpriteColourIndex(s, px, py))

\* what (px, py) shows when `opaque` are the sprites opaque there
Shows(opaque, px, py) ==
    IF opaque = {} THEN Beneath(px, py)
    ELSE ColourOf(LowestOf(opaque), px, py)

\* C29: render draws the background first and then the sprites from OAM
\* entry 63 down to entry 0; a pixel shows the opaque (colour index 1..3)
\* sprite of lowest OAM index among those drawn, and where every sprite
\* drawn has colour index 0 it is left as the background drew it.
C29_SpriteLayering ==
    /\ render.order # << >> => render.bg_done
    /\ \A n \in 1..Len(render.order) : render.order[n] = 256 - 4 * n
    /\ \A idx \in DOMAIN render.frame :
          render.frame[idx] =
              Shows(OpaqueAt(idx % 256, idx \div 256), idx % 256, idx \div 256)

\* the call has returned; at some pixel sprites 0 and 1 are both opaque
\* with different colours and the pixel shows sprite 0's, and at some pixel
\* inside the boxes of sprites 0 and 1 only the background shows
C29_Witness ==
    /\ render.stage = "done"
    /\ \E idx \in DOMAIN render.frame :
          LET px == idx % 256
              py == idx \div 256
          IN  /\ SpriteColourIndex(0, px, py) # 0
              /\ SpriteColourIndex(1, px, py) # 0
              /\ render.frame[idx] = ColourOf(0, px, py)
              /\ render.frame[idx] # ColourOf(1, px, py)
    /\ \E idx \in DOMAIN render.frame :
          LET px == idx % 256
              py == idx \div 256
          IN  /\ px \in 5..10 /\ py \in 4..9
              /\ OpaqueAt(px, py) = {}
              /\ render.frame[idx] = bg_pixel(ppu, px, py)

(***************************************************************************)
(* Tracer (hw/cpu/tracer.rs).  A formatted number is the sequence of its   *)
(* characters.                                                             *)
(***************************************************************************)

HexDigit == <<"0", "1", "2", "3", "4", "5", "6", "7",
              "8", "9", "A", "B", "C", "D", "E", "F">>

\* the upper-case hexadecimal digits of v, without padding
RECURSIVE upper_hex(_)
upper_hex(v) ==
    IF v < 16 THEN <<HexDigit[v + 1]>>
    ELSE Append(upper_hex(v \div 16), HexDigit[(v % 16) + 1])

\* format!("{:0wX}", v): padded with zeros to w characters, never cut
format_X(v, w) ==
    [k \in 1..(w - Len(upper_hex(v))) |-> "0"] \o upper_hex(v)

\* `for _ in 0..opcode.bytes - 1 { cpu.mem_read(cpu.program_counter + 1) }`:
\* one "{:02X} " column a turn
trace_operand_columns(c, bytes) ==
    [n \in 1..(bytes - 1) |-> format_X(mem_read(c, c.pc + 1), 2)]

\* the numbers the arm of `match opcode.addressing_mode` formats, in the
\* order it prints them
trace_assembly(c, mode) ==
    LET byte == mem_read(c, c.pc + 1)
        word == mem_read_u16(c, c.pc + 1)
    IN  CASE mode = "Immediate" -> <<format_X(byte, 2)>>
          [] mode = "ZeroPage" ->
                <<format_X(byte, 2), format_X(mem_read(c, byte), 2)>>
          [] mode = "ZeroPageX" ->
                <<format_X(byte, 2), format_X(WrapAdd8(c.x, byte), 2),
                  format_X(mem_read(c, WrapAdd8(c.x, byte)), 2)>>
          [] mode = "ZeroPageY" ->
                <<format_X(byte, 2), format_X(WrapAdd8(c.y, byte), 2),
                  format_X(mem_read(c, WrapAdd8(c.y, byte)), 2)>>
          [] mode = "Absolute" ->
                <<format_X(word, 4), format_X(mem_read(c, word), 2)>>
          [] mode = "AbsoluteX" ->
                <<format_X(word, 4), format_X(WrapAdd16(word, c.x), 4),
                  format_X(mem_read(c, WrapAdd16(word, c.x)), 2)>>
          [] mode = "AbsoluteY" ->
                <<format_X(word, 4), format_X(WrapAdd16(word, c.y), 4),
                  format_X(mem_read(c, WrapAdd16(word, c.y)), 2)>>
          [] mode = "IndirectX" ->
                <<format_X(byte, 2), format_X(WrapAdd8(c.x, byte), 2),
                  format_X(mem_read_u16(c, WrapAdd8(c.x, byte)), 4),
                  format_X(mem_read(c, mem_read_u16(c, WrapAdd8(c.x, byte))), 2)>>
          [] mode = "IndirectY" ->
                <<format_X(byte, 2), format_X(mem_read_u16(c, byte), 4),
                  format_X(WrapAdd16(mem_read_u16(c, byte), c.y), 4),
                  format_X(mem_read(c, WrapAdd16(mem_read_u16(c, byte), c.y)), 2)>>
          [] OTHER -> << >>

\* the last format! of trace: "A:{:02X} X:{:02X} Y:{:02X} P:{:02X} SP:{:02X}"
\* of register_a, register_x, register_y, status and program_counter
trace_registers(c) ==
    [A  |-> format_X(c.a, 2), X |-> format_X(c.x, 2), Y |-> format_X(c.y, 2),
     P  |-> format_X(c.p, 2), SP |-> format_X(c.pc, 2)]

\* trace(cpu): the fields of the line, left to right
trace(c) ==
    LET opcode_byte == mem_read(c, c.pc)
        known == opcode_byte \in DOMAIN OPCODES
    IN  [printed   |-> TRUE,
         cpu       |-> c,
         pc        |-> format_X(c.pc, 4),
         opcode    |-> format_X(opcode_byte, 2),
         operands  |-> IF known
                       THEN trace_operand_columns(c, OPCODES[opcode_byte].bytes)
                       ELSE << >>,
         mnemonic  |-> IF known THEN OPCODES[opcode_byte].instruction
                       ELSE "ILLEGAL",
         assembly  |-> IF known
                       THEN trace_assembly(c, OPCODES[opcode_byte].addressing_mode)
                       ELSE << >>,
         registers |-> trace_registers(c)]

\* trace(&cpu), called on the running CPU between two instructions
CpuTrace ==
    /\ cpu_mode = "running"
    /\ traced' = trace(CpuNow)
    /\ UNCHANGED <<bus_vars, cpu_vars, render, ipc>>

TraceNext == CpuStep \/ CpuTrace

TraceSpec == ExecInit /\ [][TraceNext]_vars

\* the two hexadecimal digits of a byte
TwoDigits(v) == <<HexDigit[(v \div 16) + 1], HexDigit[(v % 16) + 1]>>

\* the length in bytes of the instruction at the PC of the traced CPU
TracedLength == OPCODES[Get(traced.cpu.mem, traced.cpu.pc)].bytes

\* C30: the trace line ends with A, X, Y, P and SP as two hexadecimal
\* digits each, the SP field being the stack pointer, and its operand
\* columns are the bytes at PC + 1 .. PC + length - 1 in address order.
C30_TraceLine ==
    traced.printed =>
        /\ traced.registers =
               [A |-> TwoDigits(traced.cpu.a), X |-> TwoDigits(traced.cpu.x),
                Y |-> TwoDigits(traced.cpu.y), P |-> TwoDigits(traced.cpu.p),
                SP |-> TwoDigits(traced.cpu.sp)]
        /\ Get(traced.cpu.mem, traced.cpu.pc) \in DOMAIN OPCODES =>
               traced.operands =
                   [n \in 1..(TracedLength - 1) |->
                       TwoDigits(Get(traced.cpu.mem, traced.cpu.pc + n))]

\* C31: the CPU's memory covers the whole 16-bit address space: no
\* mem_write, mem_read, 16-bit access or opcode fetch, at any address up to
\* and including 0xFFFF, ends in an index outside the memory array.
C31_WholeAddressSpace == cpu_mode # "index_out_of_bounds"

\* ---- termination of run(): the loop entered a few bytes below the top of
\* memory, over cells that all hold the same byte

\* the number of cells below 0xFFFF the run can start from
RunLength == 8

\* the byte the cells hold: every opcode of the table, and 0x02, which the
\* table does not hold
RunFills == DOMAIN OPCODES \cup {2}

RunInit ==
    /\ cartridge = NoCartridge
    /\ cpu_vram = EmptyMem
    /\ ppu = bus_new_ppu(NoCartridge)
    /\ cycles = 0
    /\ bus_mode = "ok"
    /\ bus_last = [kind |-> "new", addr |-> 0, data |-> 0, value |-> 0,
                   port |-> "none", fault |-> "none"]
    /\ bus_pre = [cpu_vram |-> EmptyMem, ppu |-> bus_new_ppu(NoCartridge),
                  cycles |-> 0, cartridge |-> NoCartridge]
    /\ ppu_advanced = 0
    /\ bus_ops = 0
    /\ bus_hist = [prev |-> bus_last, frames |-> 0, callbacks |-> 0,
                   delivered |-> 0, ctrl_rewritten |-> FALSE, joy |-> JoypadIdle]
    /\ \E v \in {0, 1, 255}, fill \in RunFills,
          start \in (65535 - RunLength)..65535 :
          /\ register_a = v
          /\ register_x = v
          /\ register_y = v
          /\ status = 0
          /\ stack_pointer = 253
          /\ program_counter = start
          /\ memory = [a \in (65535 - RunLength)..65534 |-> fill]
    /\ cpu_mode = "running"
    /\ cpu_prev = [op |-> "run", opcode |-> 0, instruction |-> "none",
                   mode |-> "none", bytes |-> 0, operand |-> 0,
                   before |-> [a |-> register_a, x |-> register_x,
                               y |-> register_y, p |-> status,
                               sp |-> stack_pointer, pc |-> program_counter,
                               mem |-> memory, fault |-> "none"]]
    /\ shadow = << >>
    /\ pulled = NoPull
    /\ cpu_pokes = 0
    /\ render = RenderIdle
    /\ traced = NoTrace
    /\ ipc = IpcIdle

\* run() is a loop on one thread: while it is running, its next turn is taken.
\* This is weak fairness of CpuStep with its enabling condition written out:
\* the loop leaves only by return or panic, so a turn is enabled exactly while
\* cpu_mode = "running"
RunFair == []<>(cpu_mode # "running") \/ []<><<CpuStep>>_vars

RunSpec == RunInit /\ [][CpuStep]_vars /\ RunFair

\* the last operation was an instruction that executed
Executed == cpu_prev.op = "step" /\ cpu_mode \in {"running", "returned"}

\* C32: every executed instruction leaves the PC above where it was fetched
\* and inside the 16-bit range (it never wraps to a lower address), and a
\* running run() reaches BRK and returns or stops with a fatal error.
C32_RunStops ==
    /\ [](Executed => /\ program_counter > cpu_prev.before.pc
                      /\ program_counter <= 65535)
    /\ (cpu_mode = "running") ~> (cpu_mode # "running")

\* run() walked over instructions up to the top of memory and stopped at
\* the fetch from 0xFFFF, having started at least three cells below
C32_Witness ==
    /\ cpu_prev.op = "step"
    /\ cpu_mode = "index_out_of_bounds"
    /\ cpu_prev.before.pc = 65535
    /\ 65532 \in DOMAIN memory
    /\ memory[65532] = 232


(***************************************************************************)
(* load_and_run on a CPU that has been used: the client has assigned the   *)
(* public registers and written memory cells before (hw/cpu/tests.rs:      *)
(* test_lda_from_memory, test_0x48_pha_with_zero_accumulator)              *)
(***************************************************************************)

\* the memories the client has prepared with mem_write: nothing, the cell of
\* test_lda_from_memory, and cells in the zero page, the stack page, below,
\* inside and just above the program image, the reset vector and above it
LoadMemories ==
    { EmptyMem,
      [a \in {16} |-> 85],
      [a \in {16, 511, 32767, 32768, 32770, 32772, 65532, 65533, 65534} |->
          IF a = 16 THEN 85 ELSE IF a = 65533 THEN 18 ELSE (a % 251) + 1] }

\* programs that read the prepared cells
LoadPrograms ==
    { <<165, 16, 0>>,                   \* LDA $10; BRK
      <<72, 0>>,                        \* PHA; BRK
      <<173, 255, 127, 0>>,             \* LDA $7FFF; BRK
      <<173, 4, 128, 0>>,               \* LDA $8004; BRK
      <<173, 2, 128, 0>>,               \* LDA $8002; BRK
      <<173, 254, 255, 0>>,             \* LDA $FFFE; BRK
      <<166, 16, 0>>,                   \* LDX $10; BRK
      <<0>> }                           \* BRK

LoadInit ==
    /\ cartridge = NoCartridge
    /\ cpu_vram = EmptyMem
    /\ ppu = bus_new_ppu(NoCartridge)
    /\ cycles = 0
    /\ bus_mode = "ok"
    /\ bus_last = [kind |-> "new", addr |-> 0, data |-> 0, value |-> 0,
                   port |-> "none", fault |-> "none"]
    /\ bus_pre = [cpu_vram |-> EmptyMem, ppu |-> bus_new_ppu(NoCartridge),
                  cycles |-> 0, cartridge |-> NoCartridge]
    /\ ppu_advanced = 0
    /\ bus_ops = 0
    /\ bus_hist = [prev |-> bus_last, frames |-> 0, callbacks |-> 0,
                   delivered |-> 0, ctrl_rewritten |-> FALSE, joy |-> JoypadIdle]
    /\ \E r \in RegisterFiles, m \in LoadMemories :
          /\ register_a = r.a
          /\ register_x = r.x
          /\ register_y = r.y
          /\ status = r.p
          /\ stack_pointer = r.sp
          /\ program_counter = 0
          /\ memory = m
    /\ cpu_mode = "idle"
    /\ cpu_prev = [op |-> "new", opcode |-> 0, instruction |-> "none",
                   mode |-> "none", bytes |-> 0, operand |-> 0,
                   before |-> [a |-> register_a, x |-> register_x,
                               y |-> register_y, p |-> status,
                               sp |-> stack_pointer, pc |-> program_counter,
                               mem |-> memory, fault |-> "none"]]
    /\ shadow = << >>
    /\ pulled = NoPull
    /\ cpu_pokes = 0
    /\ render = RenderIdle
    /\ traced = NoTrace
    /\ ipc = IpcIdle

LoadNext ==
    \/ \E program \in LoadPrograms : CpuLoadAndRun(program)
    \/ CpuStep

LoadSpec == LoadInit /\ [][LoadNext]_vars

\* the cells load writes: the image of a program of n bytes and the reset vector
LoadWrites(n) == (32768..(32768 + n - 1)) \cup {65532, 65533}

\* load_and_run has left the registers clean and every cell outside the
\* image and the vector as it was
LoadedClean ==
    cpu_prev.op = "load_and_run" =>
        /\ register_a = 0 /\ register_x = 0 /\ register_y = 0
        /\ status = 0
        /\ \A a \in (DOMAIN memory \cup DOMAIN cpu_prev.before.mem)
                        \ LoadWrites(cpu_prev.operand) :
              Get(memory, a) = Get(cpu_prev.before.mem, a)

\* the address the program's first instruction names
FirstOperandAddress ==
    IF Get(memory, 32768) \in {165, 166}
    THEN Get(memory, 32769)
    ELSE Get(memory, 32769) + 256 * Get(memory, 32770)

\* the first instruction of the loaded program, a load from a cell outside
\* what load wrote, reads what the cell held before load_and_run
ReadsWhatWasWritten ==
    /\ cpu_prev.op = "load_and_run"
    /\ cpu_prev'.op = "step"
    /\ cpu_prev'.instruction \in {"LDA", "LDX"}
    /\ FirstOperandAddress \notin LoadWrites(cpu_prev.operand)
    => LET before == Get(cpu_prev.before.mem, FirstOperandAddress)
       IN  IF cpu_prev'.instruction = "LDA"
           THEN register_a' = before
           ELSE register_x' = before

\* C33: load_and_run starts the program with A, X, Y and the status register
\* zero whatever they held, and with every memory cell outside the program
\* image and the reset vector as it was, so that the program reads the bytes
\* written to RAM before load_and_run.
C33_LoadAndRunKeepsMemory ==
    /\ []LoadedClean
    /\ [][ReadsWhatWasWritten]_vars

\* C33 witness: the program of test_lda_from_memory has been loaded on a CPU
\* whose registers and flags were set and whose cells 0x0010, 0x01FF and
\* 0x8004 had been written; the registers are clean and the cells are kept.
C33_Witness ==
    /\ cpu_prev.op = "load_and_run"
    /\ cpu_prev.before.a = 255
    /\ cpu_prev.before.p = 195
    /\ Get(cpu_prev.before.mem, 32768) # 0
    /\ Get(memory, 32768) = 165
    /\ Get(memory, 16) = 85
    /\ Get(memory, 511) # 0
    /\ Get(memory, 32772) # 0
    /\ register_a = 0
    /\ status = 0


\* C34: TXS copies X into the stack pointer and changes nothing else: A, X, Y,
\* memory and every status flag, Zero and Negative included, are after TXS
\* what they were before it, for every X.
C34_TxsCopiesOnly ==
    (Executed /\ cpu_prev.instruction = "TXS") =>
        /\ stack_pointer = cpu_prev.before.x
        /\ register_a = cpu_prev.before.a
        /\ register_x = cpu_prev.before.x
        /\ register_y = cpu_prev.before.y
        /\ memory = cpu_prev.before.mem
        /\ status = cpu_prev.before.p


\* the second instruction of one of the pairs ROL A; ROR A and ROR A; ROL A
\* has executed
RotatePairExecuted ==
    /\ Executed
    /\ cpu_prev.before.pc = 32769
    /\ \/ Get(memory, 32768) = 42 /\ cpu_prev.opcode = 106
       \/ Get(memory, 32768) = 106 /\ cpu_prev.opcode = 42

C35_ReverseWitness ==
    /\ RotatePairExecuted
    /\ cpu_prev.opcode = 42
    /\ cpu_prev.before.a = 192
    /\ flag_contains(cpu_prev.before.p, CARRY)
    /\ register_a = 129
    /\ flag_contains(status, CARRY)


\* every index render forms into chr_rom (8192 bytes), vram (2048 bytes) and
\* palette_table (32 bytes) is inside the array
RenderIndexesInside ==
    /\ \A i \in 0..959 :
          /\ bknd_pattern_addr(ppu) + Get(ppu.vram, i) * 16 + 15 < 8192
          /\ 960 + ((i \div 32) \div 4) * 8 + ((i % 32) \div 4) < 2048
    /\ \A pallet_idx \in 0..3 :
          /\ 1 + pallet_idx * 4 + 2 < 32
          /\ 17 + pallet_idx * 4 + 2 < 32
    /\ \A i \in {4 * s : s \in 0..63} :
          sprt_pattern_addr(ppu) + Get(ppu.oam_data, i + 1) * 16 + 15 < 8192

\* C36: rendering stays inside the frame: whatever VRAM, palette and OAM hold
\* (any sprite X and Y in 0..255, any flip bits), every pixel render writes
\* has 0 <= x < 256 and 0 <= y < 240, and every pattern, attribute and palette
\* index it reads is inside the 8 KiB CHR-ROM, the 2 KiB VRAM and the 32-byte
\* palette table.
C36_RenderInsideFrame ==
    render.stage # "idle" =>
        /\ render.far.x < 256
        /\ render.far.y < 240
        /\ RenderIndexesInside


(***************************************************************************)
(* The command server (api/ipc.rs) and the emulator it drives              *)
(* (api/emulator.rs).  The emulator's CPU owns the bus; of the emulator    *)
(* only the bus is modelled here, and the CPU in front of it follows       *)
(* section 4.3 of the specification.  The client is the process on the     *)
(* other side of the three files; it follows the handshake: command byte   *)
(* and payload first, the signal byte last, and no further write before it *)
(* has read the signal byte as 0.                                          *)
(***************************************************************************)

COMMAND_FILE_SIZE == 1024

\* the client issues at most this many commands
MaxIssued == 3

\* the mutant of ServerCommands::from: a byte above 6 is taken for the last
\* command of the table
ServerCommands_from_clamped(value) ==
    CASE value = 0 -> "LoadCartridge"
      [] value = 1 -> "Reset"
      [] value = 2 -> "Step"
      [] value = 3 -> "SetKeyEvent"
      [] value = 4 -> "GetFrame"
      [] value = 5 -> "GetValueAtAddress"
      [] OTHER -> "Stop"

\* impl From<u8> for ServerCommands
ServerCommands_from(value) ==
    CASE value = 0 -> "LoadCartridge"
      [] value = 1 -> "Reset"
      [] value = 2 -> "Step"
      [] value = 3 -> "SetKeyEvent"
      [] value = 4 -> "GetFrame"
      [] value = 5 -> "GetValueAtAddress"
      [] value = 6 -> "Stop"
      [] OTHER -> "Noop"

\* u32::from_le_bytes of the four bytes of `bytes` from index `at` (1-based)
u32_from_le_bytes(bytes, at) ==
    bytes[at] + (256 * bytes[at + 1]) + (65536 * bytes[at + 2])
        + (16777216 * bytes[at + 3])

\* u16::from_le_bytes([payload[0], payload[1]])
u16_from_le_bytes(bytes) == bytes[1] + (256 * bytes[2])

\* address.to_le_bytes()
u16_to_le_bytes(address) == <<address % 256, address \div 256>>

\* EmulatorServer::read_command: None while the signal byte is 0; otherwise
\* the command of byte 0, the payload of bytes 5.. when its length (bytes
\* 1..4) is in range, and the signal byte set to 0 before returning
read_command(command_mmap) ==
    IF command_mmap.signal = 0
    THEN [some |-> FALSE, command |-> "Noop", payload |-> << >>,
          command_mmap |-> command_mmap]
    ELSE [some |-> TRUE,
          command |-> ServerCommands_from(command_mmap.command),
          payload |-> IF command_mmap.payload_len > 0
                         /\ command_mmap.payload_len < COMMAND_FILE_SIZE - 10
                      THEN SubSeq(command_mmap.payload, 1,
                                  command_mmap.payload_len)
                      ELSE << >>,
          command_mmap |-> [command_mmap EXCEPT !.signal = 0]]

\* EmulatorServer::code_to_button: the button's bit, or 0 for None
code_to_button(key) == IF key \in {1, 2, 4, 8, 16, 32, 64, 128} THEN key ELSE 0

\* EmulatorServer::write_memory_value_response, on the first three bytes of
\* the state file
write_memory_value_response(address, value) ==
    u16_to_le_bytes(address) \o <<value>>

\* EmulatorServer::update_frame, on the frame file: the emulator's current
\* frame when there is an emulator
update_frame(frame_mmap, emulator, current_frame) ==
    IF emulator THEN current_frame ELSE frame_mmap

\* the paths that hold an iNES file, and the cartridge in it
RomPaths == { <<114>> }

RomOnDisk == [present |-> TRUE, prg_len |-> 16384, seed |-> 3,
              screen_mirroring |-> "Horizontal"]

\* the commands the client issues: <<command byte, payload>>
IpcCommands ==
    { <<0, <<1, 0, 0, 0, 114>>>>,       \* LoadCartridge "r"
      <<0, <<1, 0>>>>,                  \* LoadCartridge, payload cut short
      <<1, << >>>>,                     \* Reset
      <<2, << >>>>,                     \* Step
      <<3, <<1, 0, 0, 0, 1>>>>,         \* SetKeyEvent: A pressed
      <<4, << >>>>,                     \* GetFrame
      <<5, <<2, 32>>>>,                 \* GetValueAtAddress 0x2002
      <<5, <<0, 32>>>>,                 \* GetValueAtAddress 0x2000
      <<5, <<7, 32>>>>,                 \* GetValueAtAddress 0x2007
      <<5, <<7>>>>,                     \* GetValueAtAddress, payload cut short
      <<6, << >>>>,                     \* Stop
      <<7, << >>>>, <<255, << >>>> }    \* no command

\* ---- the client

\* the client writes the command byte, the payload length and the payload
ClientWrite(cmd, payload) ==
    /\ ipc.client.pc = "idle"
    /\ ipc.client.issued < MaxIssued
    /\ ipc' = [ipc EXCEPT !.command_mmap.command = cmd,
                          !.command_mmap.payload_len = Len(payload),
                          !.command_mmap.payload = payload,
                          !.client.pc = "written"]
    /\ UNCHANGED <<bus_vars, cpu_vars, render, traced>>

\* the client sets the signal byte: the command is issued
ClientSignal ==
    /\ ipc.client.pc = "written"
    /\ ipc' = [ipc EXCEPT !.command_mmap.signal = 1,
                          !.client.pc = "waiting",
                          !.client.issued = @ + 1]
    /\ UNCHANGED <<bus_vars, cpu_vars, render, traced>>

\* the client reads the signal byte as 0, and then the state and frame files
ClientObserve ==
    /\ ipc.client.pc = "waiting"
    /\ ipc.command_mmap.signal = 0
    /\ ipc' = [ipc EXCEPT !.client.pc = "idle",
                          !.seen = [n |-> ipc.client.issued,
                                    command |-> ipc.command_mmap.command,
                                    payload |-> ipc.command_mmap.payload,
                                    state |-> ipc.state_mmap,
                                    frame |-> ipc.frame_mmap]]
    /\ UNCHANGED <<bus_vars, cpu_vars, render, traced>>

\* ---- the server: run() is `loop { read_command, handle_command }`

\* read_command returned Some((command, payload))
ServerReadCommand ==
    /\ ipc.server.pc = "read_command"
    /\ read_command(ipc.command_mmap).some
    /\ ipc' = [ipc EXCEPT
                 !.command_mmap = read_command(ipc.command_mmap).command_mmap,
                 !.server.pc = "handle_command",
                 !.server.command = read_command(ipc.command_mmap).command,
                 !.server.payload = read_command(ipc.command_mmap).payload,
                 !.taken = [n |-> @.n + 1,
                            command |-> ipc.command_mmap.command,
                            payload |-> read_command(ipc.command_mmap).payload,
                            signal |-> ipc.command_mmap.signal,
                            emulator |-> ipc.emulator]]
    /\ UNCHANGED <<bus_vars, cpu_vars, render, traced>>

\* handle_command is running `command`
Handling(command) ==
    /\ ipc.server.pc = "handle_command"
    /\ ipc.server.command = command

\* handle_command returned Ok(()): back to the top of the loop
Handled == [ipc EXCEPT !.server.pc = "read_command", !.handled = @ + 1]

\* handle_command returned Err(e): run() prints it and loops
HandledErr ==
    [ipc EXCEPT !.server.pc = "read_command", !.handled = @ + 1,
                !.server.logged = 1]

\* the process ended inside handle_command
HandledEnd(how) == [ipc EXCEPT !.server.pc = how, !.handled = @ + 1]

\* Bus::new(Some(c), callback), for the emulator Emulator::new builds
BusCreate(c) ==
    /\ cartridge' = c
    /\ cpu_vram' = EmptyMem
    /\ ppu' = bus_new_ppu(c)
    /\ cycles' = 0
    /\ bus_mode' = "ok"
    /\ bus_last' = [kind |-> "new", addr |-> 0, data |-> 0, value |-> 0,
                    port |-> "none", fault |-> "none"]
    /\ bus_pre' = [cpu_vram |-> EmptyMem, ppu |-> bus_new_ppu(c), cycles |-> 0,
                   cartridge |-> c]
    /\ ppu_advanced' = 0
    /\ bus_ops' = 0
    /\ bus_hist' = [prev |-> bus_last', frames |-> 0, callbacks |-> 0,
                    delivered |-> 0, ctrl_rewritten |-> FALSE,
                    joy |-> JoypadIdle]

\* ServerCommands::LoadCartridge: Err on a payload shorter than its path
\* length says; Emulator::new unwraps the file it reads
HandleLoadCartridge ==
    /\ Handling("LoadCartridge")
    /\ IF \/ Len(ipc.server.payload) < 4
          \/ Len(ipc.server.payload)
                 < 4 + u32_from_le_bytes(ipc.server.payload, 1)
       THEN ipc' = HandledErr /\ UNCHANGED bus_vars
       ELSE IF SubSeq(ipc.server.payload, 5,
                      4 + u32_from_le_bytes(ipc.server.payload, 1)) \in RomPaths
       THEN /\ ipc' = [Handled EXCEPT !.emulator = TRUE]
            /\ BusCreate(RomOnDisk)
       ELSE ipc' = HandledEnd("panicked") /\ UNCHANGED bus_vars
    /\ UNCHANGED <<cpu_vars, render, traced>>

\* cpu.reset() of the emulator's CPU: the reset vector is read from
\* PRG-ROM, which leaves the bus as it is
HandleReset ==
    /\ Handling("Reset")
    /\ ipc' = Handled
    /\ UNCHANGED <<bus_vars, cpu_vars, render, traced>>

\* the cycles of the instruction a Step executes
StepCycles == 2

\* cpu.step(|_| {}) of the emulator's CPU, for an instruction that touches
\* no port: the bus is ticked by the instruction's cycles at the end
EmulatorStep == BusDoTick(StepCycles)

\* ServerCommands::Step
HandleStep ==
    /\ Handling("Step")
    /\ IF ipc.emulator
       THEN /\ EmulatorStep
            /\ ipc' = IF bus_mode' = "ok" THEN Handled
                      ELSE HandledEnd("panicked")
       ELSE ipc' = Handled /\ UNCHANGED bus_vars
    /\ UNCHANGED <<cpu_vars, render, traced>>

\* bus.set_key_to_press / set_key_to_release
EmulatorSetKey(button, pressed) ==
    /\ bus_hist' = [bus_hist EXCEPT !.joy.buttons =
                       IF pressed
                       THEN IF (@ \div button) % 2 = 1 THEN @ ELSE @ + button
                       ELSE IF (@ \div button) % 2 = 1 THEN @ - button ELSE @]
    /\ UNCHANGED <<cpu_vram, cartridge, ppu, cycles, bus_mode, bus_last,
                   bus_pre, ppu_advanced, bus_ops>>

\* ServerCommands::SetKeyEvent: key code in payload[0], pressed in payload[4]
HandleSetKeyEvent ==
    /\ Handling("SetKeyEvent")
    /\ IF /\ Len(ipc.server.payload) >= 5
          /\ ipc.emulator
          /\ code_to_button(ipc.server.payload[1]) # 0
       THEN EmulatorSetKey(code_to_button(ipc.server.payload[1]),
                           ipc.server.payload[5] # 0)
       ELSE UNCHANGED bus_vars
    /\ ipc' = Handled
    /\ UNCHANGED <<cpu_vars, render, traced>>

\* ServerCommands::GetFrame: update_frame()
HandleGetFrame ==
    /\ Handling("GetFrame")
    /\ ipc' = [Handled EXCEPT
                 !.frame_mmap = update_frame(@, ipc.emulator, bus_hist.frames),
                 !.answer = IF ipc.emulator
                            THEN [@ EXCEPT !.n = ipc.taken.n,
                                           !.frame = bus_hist.frames]
                            ELSE @]
    /\ UNCHANGED <<bus_vars, cpu_vars, render, traced>>

\* cpu.mem_read(address) of the emulator's CPU: the read goes to the bus
EmulatorMemRead(address) == BusDoRead(address)

\* Emulator::get_value_at_address
get_value_at_address(address) == EmulatorMemRead(address)

\* ServerCommands::GetValueAtAddress: the address in payload[0..2], the
\* answer into the state file
HandleGetValueAtAddress ==
    /\ Handling("GetValueAtAddress")
    /\ IF ipc.emulator /\ Len(ipc.server.payload) >= 2
       THEN /\ get_value_at_address(u16_from_le_bytes(ipc.server.payload))
            /\ ipc' =
                 IF bus_mode' = "ok"
                 THEN [Handled EXCEPT
                         !.state_mmap = write_memory_value_response(
                             u16_from_le_bytes(ipc.server.payload),
                             bus_last'.value),
                         !.answer = [@ EXCEPT !.n = ipc.taken.n,
                             !.state = write_memory_value_response(
                                 u16_from_le_bytes(ipc.server.payload),
                                 bus_last'.value)]]
                 ELSE HandledEnd("panicked")
       ELSE ipc' = Handled /\ UNCHANGED bus_vars
    /\ UNCHANGED <<cpu_vars, render, traced>>

\* ServerCommands::Stop: std::process::exit(0)
HandleStop ==
    /\ Handling("Stop")
    /\ ipc' = HandledEnd("exited")
    /\ UNCHANGED <<bus_vars, cpu_vars, render, traced>>

\* ServerCommands::Noop
HandleNoop ==
    /\ Handling("Noop")
    /\ ipc' = Handled
    /\ UNCHANGED <<bus_vars, cpu_vars, render, traced>>

IpcInit ==
    /\ cartridge = NoCartridge
    /\ cpu_vram = EmptyMem
    /\ ppu = bus_new_ppu(cartridge)
    /\ cycles = 0
    /\ bus_mode = "ok"
    /\ bus_last = [kind |-> "new", addr |-> 0, data |-> 0, value |-> 0,
                   port |-> "none", fault |-> "none"]
    /\ bus_pre = [cpu_vram |-> EmptyMem, ppu |-> ppu, cycles |-> 0,
                  cartridge |-> cartridge]
    /\ ppu_advanced = 0
    /\ bus_ops = 0
    /\ bus_hist = [prev |-> bus_last, frames |-> 0, callbacks |-> 0,
                   delivered |-> 0, ctrl_rewritten |-> FALSE, joy |-> JoypadIdle]
    /\ register_a = 0
    /\ register_x = 0
    /\ register_y = 0
    /\ status = 0
    /\ stack_pointer = 0
    /\ program_counter = 0
    /\ memory = EmptyMem
    /\ cpu_mode = "idle"
    /\ cpu_prev = [op |-> "new", opcode |-> 0, instruction |-> "none",
                    mode |-> "none", bytes |-> 0, operand |-> 0,
                    before |-> [a |-> 0, x |-> 0, y |-> 0, p |-> 0, sp |-> 0,
                                pc |-> 0, mem |-> EmptyMem, fault |-> "none"]]
    /\ shadow = << >>
    /\ pulled = [entry |-> [kind |-> "none", sp |-> 0, val |-> 0, byte |-> 0,
                            fresh |-> FALSE, ok |-> FALSE],
                 balanced |-> FALSE]
    /\ cpu_pokes = 0
    /\ render = RenderIdle
    /\ traced = NoTrace
    /\ ipc = IpcIdle

IpcNext ==
    \/ \E c \in IpcCommands : ClientWrite(c[1], c[2])
    \/ ClientSignal
    \/ ClientObserve
    \/ ServerReadCommand
    \/ HandleLoadCartridge
    \/ HandleReset
    \/ HandleStep
    \/ HandleSetKeyEvent
    \/ HandleGetFrame
    \/ HandleGetValueAtAddress
    \/ HandleStop
    \/ HandleNoop

IpcSpec == IpcInit /\ [][IpcNext]_vars

\* every issued command has been taken from the command file by the server
\* at most once, the k-th taken is the k-th issued, and each taken command
\* is handled once before the next is taken
ExactlyOnceInOrder ==
    /\ ipc.taken.n \in {ipc.client.issued - 1, ipc.client.issued}
    /\ (ipc.command_mmap.signal # 0) <=> (ipc.taken.n = ipc.client.issued - 1)
    /\ ipc.handled \in {ipc.taken.n - 1, ipc.taken.n}
    /\ (ipc.server.pc = "handle_command") <=> (ipc.handled = ipc.taken.n - 1)
    /\ ipc.taken.n > 0 =>
          /\ ipc.taken.signal # 0
          /\ ipc.server.command = ServerCommands_from(ipc.taken.command)
          /\ ipc.server.payload = ipc.taken.payload
    /\ ipc.seen.n > 0 => ipc.taken.n >= ipc.seen.n
    /\ (ipc.seen.n > 0 /\ ipc.seen.n = ipc.taken.n) =>
          /\ ipc.taken.command = ipc.seen.command
          /\ ipc.taken.payload = ipc.seen.payload

\* C37: with a client that follows the handshake, every issued command is
\* handled exactly once and in issue order, and handle_command never runs
\* while the signal byte is 0
C37_HandshakeExactlyOnce ==
    /\ ExactlyOnceInOrder
    /\ ipc.server.pc = "handle_command" => ipc.command_mmap.signal # 0


\* the command the client last saw acknowledged is one that writes a result:
\* it was taken with an emulator loaded, no later command has been taken,
\* and the server has not ended in a panic
AwaitsResult(command) ==
    /\ ipc.seen.n > 0
    /\ ipc.seen.command = command
    /\ ipc.taken.n = ipc.seen.n
    /\ ipc.taken.emulator
    /\ ipc.server.pc # "panicked"

\* C38: when the client reads the signal byte as 0 after GetFrame, the frame
\* file it then reads holds the frame GetFrame copied for that command; after
\* GetValueAtAddress, bytes 0..2 of the state file hold the address
\* (little-endian) and the value read for that command
C38_ResultBeforeAck ==
    /\ AwaitsResult(4) =>
          /\ ipc.answer.n = ipc.seen.n
          /\ ipc.seen.frame = ipc.answer.frame
    /\ (AwaitsResult(5) /\ Len(ipc.seen.payload) >= 2) =>
          /\ ipc.answer.n = ipc.seen.n
          /\ ipc.seen.state = ipc.answer.state
          /\ ipc.seen.state[1] = ipc.seen.payload[1]
          /\ ipc.seen.state[2] = ipc.seen.payload[2]


\* the step is handle_command (with the Err branch of run) for a command of
\* no effect: Noop, or a command for the emulator while there is none
HandlesWithoutEffect ==
    /\ ipc.server.pc = "handle_command"
    /\ ipc'.handled = ipc.handled + 1
    /\ \/ ipc.server.command = "Noop"
       \/ /\ ~ ipc.emulator
          /\ ipc.server.command \in {"Reset", "Step", "SetKeyEvent",
                                     "GetFrame", "GetValueAtAddress"}

\* C39: a command byte outside 0..6 is Noop; Noop, and Reset, Step,
\* SetKeyEvent, GetFrame and GetValueAtAddress without an emulator, leave
\* the emulator, the state file and the frame file as they are and touch no
\* byte of the command file (the signal byte was cleared by read_command),
\* and the server goes on to read the next command; a handler error is only
\* logged and the server also goes on
C39_CommandsWithoutEffect ==
    /\ [](ipc.taken.n > 0 =>
             ((ipc.taken.command \notin 0..6)
                 <=> (ipc.server.command = "Noop")))
    /\ [][ipc'.taken.n # ipc.taken.n =>
             /\ UNCHANGED bus_vars
             /\ ipc'.emulator = ipc.emulator
             /\ ipc'.state_mmap = ipc.state_mmap
             /\ ipc'.frame_mmap = ipc.frame_mmap
             /\ ipc'.command_mmap = [ipc.command_mmap EXCEPT !.signal = 0]]_vars
    /\ [][HandlesWithoutEffect =>
             /\ UNCHANGED bus_vars
             /\ ipc'.emulator = ipc.emulator
             /\ ipc'.state_mmap = ipc.state_mmap
             /\ ipc'.frame_mmap = ipc.frame_mmap
             /\ ipc'.command_mmap = ipc.command_mmap
             /\ ipc'.server.pc = "read_command"]_vars
    /\ [][ipc'.server.logged > ipc.server.logged =>
             /\ UNCHANGED bus_vars
             /\ ipc'.emulator = ipc.emulator
             /\ ipc'.server.pc = "read_command"]_vars

\* a GetValueAtAddress taken before any LoadCartridge has been handled, with
\* the state file still zero-filled and the server reading on
C39_Witness ==
    /\ ipc.server.pc = "read_command"
    /\ ipc.server.command = "GetValueAtAddress"
    /\ Len(ipc.server.payload) >= 2
    /\ ipc.handled = ipc.taken.n
    /\ ~ ipc.emulator
    /\ ipc.state_mmap = <<0, 0, 0>>

\* a command byte of 255 handled as Noop
C39_NoopWitness ==
    /\ ipc.server.pc = "read_command"
    /\ ipc.handled = ipc.taken.n
    /\ ipc.taken.command = 255
    /\ ipc.server.command = "Noop"


\* the server has run handle_command for a GetValueAtAddress with its two
\* address bytes, on a loaded emulator, and has taken nothing since
ValueWasRead ==
    /\ ipc.server.command = "GetValueAtAddress"
    /\ Len(ipc.server.payload) >= 2
    /\ ipc.taken.emulator
    /\ ipc.handled = ipc.taken.n

\* C40: GetValueAtAddress, for any address, ends without a panic, answers
\* with the address and the byte read there, and leaves RAM, the PPU (status,
\* address latch, VRAM address, read buffer, ...) and the cycle counter as
\* they were before it, which is what makes a following Step come out as it
\* would have without it
C40_GetValueIsPure ==
    ValueWasRead =>
        /\ ipc.server.pc = "read_command"
        /\ bus_mode = "ok"
        /\ bus_last.kind = "read"
        /\ bus_last.addr = u16_from_le_bytes(ipc.server.payload)
        /\ ipc.state_mmap = write_memory_value_response(bus_last.addr,
                                                        bus_last.value)
        /\ ppu = bus_pre.ppu
        /\ cpu_vram = bus_pre.cpu_vram
        /\ cycles = bus_pre.cycles
        /\ cartridge = bus_pre.cartridge

\* the part of C40 that is about the state only: the read may end in a panic,
\* but when it returns it has changed nothing
C40_GetValueKeepsState ==
    (ValueWasRead /\ bus_mode = "ok") =>
        /\ ppu = bus_pre.ppu
        /\ cpu_vram = bus_pre.cpu_vram

====
